---- MODULE Spec2Model ----
(***************************************************************************)
(* Model of lxd/container_lxc.go: the per-container operation lock         *)
(* (lxcContainerOperation, createOperation, getOperation), the lifecycle   *)
(* calls that take it (Start, Stop, Shutdown, the OnStop hook) and the     *)
(* id-map allocator (findIdmap, containerLXCCreate, Update).               *)
(***************************************************************************)
EXTENDS Integers, Sequences, FiniteSets, TLC

(***************************************************************************)
(* Bounds of the model.                                                    *)
(***************************************************************************)
\* Concurrent API requests for one container, each served by its own goroutine
\* that makes one call (Start, Stop or Shutdown).
NumCallers == 2
\* Each call allocates at most one lxcContainerOperation.
MaxOps == NumCallers

\* Containers of the host (the id-map allocator).
NumContainers == 3
\* The host's default map (state.OS.IdmapSet.Idmap[0]): its first host id and its
\* size in blocks of 65536 ids.
HostBase == 1000000
HostBlocks == 5

Callers == 1..NumCallers
Ops == 1..MaxOps
\* A nil *lxcContainerOperation.
NoOp == 0

VARIABLES
    lxcContainerOperations, \* the registry entry for this container's id: an op or NoOp
    ops,                    \* the allocated lxcContainerOperation objects
    nOps,                   \* how many have been allocated
    watchdog,               \* per op: the goroutine of Create and the round of its loop
    running,                \* the runtime's state of the container (IsRunning)
    pc,                     \* per caller: where it is in its call
    call,                   \* per caller: the call it executes and its createOperation arguments
    cop,                    \* per caller: the op variable of its call
    joined,                 \* per caller: createOperation returned an existing (reused) op
    ret,                    \* per caller: the value its last call returned
    hook,                   \* the OnStop hook: its position and its op variable
    doneCalls               \* per op: a caller or the hook called Done on it before its
                            \* chanDone was closed

VARIABLES
    cts,                    \* the containers table: per name its row (config, volatile keys)
    baseGiven,              \* a container was given security.idmap.base at some point
    ipc,                    \* per container: where its containerLXCCreate is
    req,                    \* per container: the config of its creation in flight
    found,                  \* per container: what findIdmap returned to the call
    idmapLock               \* holder of idmapLock, or NoName

idVars == <<cts, baseGiven, ipc, req, found, idmapLock>>

opVars == <<lxcContainerOperations, ops, nOps, watchdog, running, pc, call, cop,
            joined, ret, hook, doneCalls>>

VARIABLES
    rawIdmap,               \* the raw.idmap value given to findIdmap
    rawRet                  \* what that findIdmap call returned

rawVars == <<rawIdmap, rawRet>>

VARIABLES
    volatile,               \* the container's volatile.last_state.idmap, volatile.idmap.current
                            \* and volatile.idmap.next keys
    rootfs,                 \* the ownership of the files of the root filesystem
    shiftfs,                \* c.state.OS.Shiftfs
    spc,                    \* where startCommon (and the rest of Start) is
    nextIdmap,              \* startCommon's local nextIdmap
    diskIdmap,              \* startCommon's local diskIdmap
    fsLog                   \* the filesystem walks of the Start in progress, in order

remapVars == <<volatile, rootfs, shiftfs, spc, nextIdmap, diskIdmap, fsLog>>

VARIABLES
    localConfig,            \* c.localConfig
    expandedConfig,         \* c.expandedConfig
    localDevices,           \* c.localDevices
    expandedDevices,        \* c.expandedDevices
    profiles,               \* c.profiles, the names of the applied profiles in order
    dbConfig,               \* the container's config rows in the database
    dbDevices,              \* the container's device rows in the database
    dbProfiles,             \* the container's profile rows in the database
    updArgs,                \* the arguments of the last Update call
    updRet                  \* what the last call on the container returned

updVars == <<localConfig, expandedConfig, localDevices, expandedDevices, profiles,
             dbConfig, dbDevices, dbProfiles, updArgs, updRet>>

VARIABLES
    lc,                     \* the in-memory container of the live updates (c)
    lrunning,               \* c.IsRunning()
    lhost,                  \* the host: its veth interfaces, the one paired with eth0, the unix device
    lpc,                    \* where the Update call is
    lrm,                    \* removeDevices still to process
    ladd,                   \* addDevices still to process
    lupd,                   \* updateDevices still to process
    loldc,                  \* the copies Update took for its deferred undo
    lentry,                 \* the container as it was when the call was entered
    llog,                   \* the device actions of the call, in order
    lskipped,               \* the optional devices whose attach failed in the call
    lwatches,               \* the registered inotify watches
    levents,                \* the container-updated events the call emitted
    lret,                   \* what the call returned
    lcall                   \* the call: "update", "start" or "stop"

liveVars == <<lc, lrunning, lhost, lpc, lrm, ladd, lupd, loldc, lentry, llog, lskipped,
              lwatches, levents, lret, lcall>>

VARIABLES
    diskDevices,            \* the devices map given to addDiskDevices
    ordered,                \* addDiskDevices' sorted slice, what is left of it
    handled,                \* the handler's calls so far: the key and the device
    dpc,                    \* where addDiskDevices is
    dret                    \* what addDiskDevices returned

diskVars == <<diskDevices, ordered, handled, dpc, dret>>

VARIABLES
    lxcState,               \* the state the runtime library would answer
    ppc,                    \* where getLxcState is
    probe,                  \* the goroutine that asks c.State()
    monitor,                \* the monitor channel (buffer of one)
    elapsed,                \* seconds since the select began
    probeRet                \* what getLxcState returned

probeVars == <<lxcState, ppc, probe, monitor, elapsed, probeRet>>

VARIABLES
    cstate,                 \* the runtime's state of the container: STOPPED, RUNNING or FROZEN
    cgroupFreezer,          \* c.state.OS.CGroupFreezerController
    cgroupPids,             \* c.state.OS.CGroupPidsController
    stateful,               \* c.stateful: a checkpoint of the container is on disk
    lifeOp,                 \* the container's entry in lxcContainerOperations
    lifeCall,               \* the lifecycle call made last and its stateful argument
    lifeEntry,              \* cstate and lifeOp as they were when that call was entered
    lifeEvents,             \* the lifecycle events sent during that call, in order
    lifeRet,                \* what that call returned
    restartRet              \* what the Start made by the OnStop hook's goroutine returned

lifeVars == <<cstate, cgroupFreezer, cgroupPids, stateful, lifeOp, lifeCall, lifeEntry,
              lifeEvents, lifeRet, restartRet>>

VARIABLES
    resC,                   \* the container's local config, devices, profiles and ephemeral flag
    resSnap,                \* the same of the snapshot given to Restore (sourceContainer)
    resRunning,             \* c.IsRunning()
    resStateful,            \* Restore's stateful argument
    resPc,                  \* where Restore is
    resEntry,               \* the container and its running state when Restore was called
    resDefer,               \* the args captured by Restore's deferred Update, if registered
    resRet                  \* what Restore returned

restoreVars == <<resC, resSnap, resRunning, resStateful, resPc, resEntry, resDefer, resRet>>

VARIABLES
    delProtection,          \* c.expandedConfig["security.protection.delete"]
    delIsSnapshot,          \* c.IsSnapshot()
    delSnapshots,           \* the container's snapshots
    delBackups,             \* the container's backups
    delVolume,              \* the container's storage volume exists
    delRecord,              \* the container's database record exists
    delEntry,               \* the four of them as they were when Delete was called
    delPc,                  \* where Delete is
    delRet                  \* what Delete returned

deleteVars == <<delProtection, delIsSnapshot, delSnapshots, delBackups, delVolume, delRecord,
                delEntry, delPc, delRet>>

VARIABLES
    cgPrivileged,           \* c.isCurrentlyPrivileged()
    cgUserNS,               \* c.state.OS.RunningInUserNS
    cgController,           \* c.state.OS.CGroupDevicesController
    cgRules,                \* the devices the container's devices cgroup allows
    cgInitial,              \* cgRules before any live attach
    cgAttached,             \* the unix devices attached live
    cgWrites,               \* per device: the cgroup writes made for it since its attach began
    cgRet                   \* what the last insertUnixDevice or removeUnixDevice returned

cgroupVars == <<cgPrivileged, cgUserNS, cgController, cgRules, cgInitial, cgAttached,
                cgWrites, cgRet>>

\* What the steps of one part of the program leave alone.
nonOpVars == <<idVars, rawVars, remapVars, updVars, liveVars, diskVars, probeVars, lifeVars, restoreVars, deleteVars, cgroupVars>>
nonIdVars == <<opVars, rawVars, remapVars, updVars, liveVars, diskVars, probeVars, lifeVars, restoreVars, deleteVars, cgroupVars>>
nonRawVars == <<opVars, idVars, remapVars, updVars, liveVars, diskVars, probeVars, lifeVars, restoreVars, deleteVars, cgroupVars>>
nonRemapVars == <<opVars, idVars, rawVars, updVars, liveVars, diskVars, probeVars, lifeVars, restoreVars, deleteVars, cgroupVars>>
nonUpdVars == <<opVars, idVars, rawVars, remapVars, liveVars, diskVars, probeVars, lifeVars, restoreVars, deleteVars, cgroupVars>>
nonLiveVars == <<opVars, idVars, rawVars, remapVars, updVars, diskVars, probeVars, lifeVars, restoreVars, deleteVars, cgroupVars>>
nonDiskVars == <<opVars, idVars, rawVars, remapVars, updVars, liveVars, probeVars, lifeVars, restoreVars, deleteVars, cgroupVars>>
nonProbeVars == <<opVars, idVars, rawVars, remapVars, updVars, liveVars, diskVars, lifeVars, restoreVars, deleteVars, cgroupVars>>
nonLifeVars == <<opVars, idVars, rawVars, remapVars, updVars, liveVars, diskVars, probeVars, restoreVars, deleteVars, cgroupVars>>
nonRestoreVars == <<opVars, idVars, rawVars, remapVars, updVars, liveVars, diskVars, probeVars, lifeVars, deleteVars, cgroupVars>>
nonDeleteVars == <<opVars, idVars, rawVars, remapVars, updVars, liveVars, diskVars, probeVars, lifeVars, restoreVars, cgroupVars>>
nonCgroupVars == <<opVars, idVars, rawVars, remapVars, updVars, liveVars, diskVars, probeVars, lifeVars, restoreVars, deleteVars>>

(***************************************************************************)
(* Errors.  An error value keeps its kind and, for the busy error, the     *)
(* action it names.                                                        *)
(***************************************************************************)
Err(kind, action) == [kind |-> kind, action |-> action]
Nil == Err("nil", "")
\* fmt.Errorf("Container is busy running a %s operation", op.action)
BusyError(op) == Err("busy", ops[op].action)
\* fmt.Errorf("Container %s operation timed out after 30 seconds", op.action)
TimeoutError(op) == Err("timeout", ops[op].action)
\* fmt.Errorf("Can't reset a non-reusable operation")
ResetError == Err("cant-reset", "")
\* An error of a lower layer (runtime library, storage, helper process).
LowerError == Err("failed", "")
\* fmt.Errorf("The container is already stopped")
StoppedError == Err("already-stopped", "")
\* fmt.Errorf("The container is already running")
RunningError == Err("already-running", "")
\* No call has returned yet.
NoRet == Err("none", "")

UnusedOp == [action |-> "", reusable |-> FALSE, err |-> Nil, closes |-> 0]
NoCall == [name |-> "", action |-> "", reusable |-> FALSE, reuse |-> FALSE]

(***************************************************************************)
(* lxcContainerOperation.Create: the fields of a new operation.  The       *)
(* watchdog goroutine it spawns enters its select, which arms a 30-second  *)
(* timer (time.After) in every round of the for loop.                      *)
(***************************************************************************)
Create(action, reusable) ==
    [action |-> action, reusable |-> reusable, err |-> Nil, closes |-> 0]

NewWatchdog == [pc |-> "select", round |-> 1]
NoWatchdog == [pc |-> "none", round |-> 0]

\* chanDone of op is closed.
Closed(op) == ops[op].closes > 0

(***************************************************************************)
(* lxcContainerOperation.Done, under lxcContainerOperationsLock: the       *)
(* "already done" check, then the stored error, close(chanDone) and the    *)
(* delete from the registry.                                               *)
(***************************************************************************)
DoneStale_mut(op) == FALSE

DoneStale(op) ==
    lxcContainerOperations = NoOp \/ lxcContainerOperations # op

\* The record of a Done call made by a caller or the hook.
Called(op) == [doneCalls EXCEPT ![op] = @ \/ ~Closed(op)]

Done(op, err) ==
    IF DoneStale(op)
      THEN UNCHANGED <<ops, lxcContainerOperations>>
      ELSE /\ ops' = [ops EXCEPT ![op].err = err, ![op].closes = @ + 1]
           /\ lxcContainerOperations' = NoOp

(***************************************************************************)
(* createOperation's decision once getOperation found an operation.        *)
(***************************************************************************)
CanReuse_mut(reuse, op) == reuse

CanReuse_never(reuse, op) == FALSE

CanReuse(reuse, op) == reuse /\ ops[op].reusable

(***************************************************************************)
(* Initial state: no operation, the container stopped or running.          *)
(***************************************************************************)
OpInit ==
    /\ lxcContainerOperations = NoOp
    /\ ops = [o \in Ops |-> UnusedOp]
    /\ nOps = 0
    /\ watchdog = [o \in Ops |-> NoWatchdog]
    /\ running \in BOOLEAN
    /\ pc = [t \in Callers |-> "idle"]
    /\ call = [t \in Callers |-> NoCall]
    /\ cop = [t \in Callers |-> NoOp]
    /\ joined = [t \in Callers |-> FALSE]
    /\ ret = [t \in Callers |-> NoRet]
    /\ hook = [pc |-> "idle", op |-> NoOp]
    /\ doneCalls = [o \in Ops |-> FALSE]

\* A caller returns err from its call; its local variables are gone.
Return(t, err) ==
    /\ pc' = [pc EXCEPT ![t] = "returned"]
    /\ ret' = [ret EXCEPT ![t] = err]
    /\ cop' = [cop EXCEPT ![t] = NoOp]
    /\ joined' = [joined EXCEPT ![t] = FALSE]

Enter(t, name, action, reusable, reuse) ==
    /\ pc' = [pc EXCEPT ![t] = "createOperation"]
    /\ call' = [call EXCEPT ![t] = [name |-> name, action |-> action,
                                    reusable |-> reusable, reuse |-> reuse]]
    /\ UNCHANGED <<cop, joined, ret>>

(***************************************************************************)
(* Start: c.createOperation("start", false, false).                        *)
(***************************************************************************)
StartCall(t) ==
    /\ pc[t] = "idle"
    /\ Enter(t, "Start", "start", FALSE, FALSE)
    /\ UNCHANGED <<lxcContainerOperations, ops, nOps, watchdog, running, hook,
                   doneCalls>>
    /\ UNCHANGED nonOpVars

(***************************************************************************)
(* Stop: the IsRunning check, then c.createOperation("stop", false, true). *)
(***************************************************************************)
StopCall(t) ==
    /\ pc[t] = "idle"
    /\ IF running
         THEN Enter(t, "Stop", "stop", FALSE, TRUE)
         ELSE /\ Return(t, StoppedError)
              /\ call' = [call EXCEPT ![t] = [NoCall EXCEPT !.name = "Stop"]]
    /\ UNCHANGED <<lxcContainerOperations, ops, nOps, watchdog, running, hook,
                   doneCalls>>
    /\ UNCHANGED nonOpVars

(***************************************************************************)
(* Shutdown: the IsRunning check, then createOperation("stop", true, true).*)
(***************************************************************************)
ShutdownCall(t) ==
    /\ pc[t] = "idle"
    /\ IF running
         THEN Enter(t, "Shutdown", "stop", TRUE, TRUE)
         ELSE /\ Return(t, StoppedError)
              /\ call' = [call EXCEPT ![t] = [NoCall EXCEPT !.name = "Shutdown"]]
    /\ UNCHANGED <<lxcContainerOperations, ops, nOps, watchdog, running, hook,
                   doneCalls>>
    /\ UNCHANGED nonOpVars

\* The body a call runs once createOperation gave it an operation.
Body(t) == IF call[t].name = "Start" THEN "startBody" ELSE "stopBody"

(***************************************************************************)
(* createOperation, first part: op, _ := c.getOperation("") (which takes   *)
(* and releases the lock) and the branch on what it found.                 *)
(***************************************************************************)
CreateOperationLookup(t) ==
    /\ pc[t] = "createOperation"
    /\ IF lxcContainerOperations # NoOp
         THEN IF CanReuse(call[t].reuse, lxcContainerOperations)
                THEN /\ pc' = [pc EXCEPT ![t] = "Reset"]
                     /\ cop' = [cop EXCEPT ![t] = lxcContainerOperations]
                     /\ UNCHANGED ret
                     /\ UNCHANGED joined
                ELSE Return(t, BusyError(lxcContainerOperations))
         ELSE /\ pc' = [pc EXCEPT ![t] = "insert"]
              /\ UNCHANGED <<cop, ret, joined>>
    /\ UNCHANGED <<lxcContainerOperations, ops, nOps, watchdog, running, call,
                   hook, doneCalls>>
    /\ UNCHANGED nonOpVars

(***************************************************************************)
(* createOperation, second part, under the lock: a new operation is        *)
(* created and stored in the registry, whatever the registry holds now.    *)
(***************************************************************************)
CreateOperationInsert(t) ==
    /\ pc[t] = "insert"
    /\ nOps' = nOps + 1
    /\ ops' = [ops EXCEPT ![nOps + 1] = Create(call[t].action, call[t].reusable)]
    /\ watchdog' = [watchdog EXCEPT ![nOps + 1] = NewWatchdog]
    /\ lxcContainerOperations' = nOps + 1
    /\ cop' = [cop EXCEPT ![t] = nOps + 1]
    /\ pc' = [pc EXCEPT ![t] = Body(t)]
    /\ UNCHANGED <<running, call, joined, ret, hook, doneCalls>>
    /\ UNCHANGED nonOpVars

(***************************************************************************)
(* lxcContainerOperation.Reset, first part: the reusable check.  In        *)
(* createOperation its error is dropped and the operation is returned.     *)
(***************************************************************************)
ResetCheck(t) ==
    /\ pc[t] = "Reset"
    /\ IF ~ops[cop[t]].reusable
         THEN IF call[t].name = "Reset"
                THEN Return(t, ResetError)
                ELSE /\ pc' = [pc EXCEPT ![t] = Body(t)]
                     /\ joined' = [joined EXCEPT ![t] = TRUE]
                     /\ UNCHANGED <<ret, cop>>
         ELSE /\ pc' = [pc EXCEPT ![t] = "chanReset"]
              /\ UNCHANGED <<ret, joined, cop>>
    /\ UNCHANGED <<lxcContainerOperations, ops, nOps, watchdog, running, call,
                   hook, doneCalls>>
    /\ UNCHANGED nonOpVars

(***************************************************************************)
(* Reset, second part: op.chanReset <- true, an unbuffered send that       *)
(* completes when the watchdog's select receives it; the loop continues    *)
(* into a new round, whose select arms a new 30-second timer.              *)
(***************************************************************************)
RestartTimer_mut(w) == w

RestartTimer(w) == [w EXCEPT !.round = @ + 1]

ResetDeliver(t) ==
    /\ pc[t] = "chanReset"
    /\ watchdog[cop[t]].pc = "select"
    /\ watchdog' = [watchdog EXCEPT ![cop[t]] = RestartTimer(@)]
    /\ IF call[t].name = "Reset"
         THEN Return(t, Nil)
         ELSE /\ pc' = [pc EXCEPT ![t] = Body(t)]
              /\ joined' = [joined EXCEPT ![t] = TRUE]
              /\ UNCHANGED <<ret, cop>>
    /\ UNCHANGED <<lxcContainerOperations, ops, nOps, running, call, hook,
                   doneCalls>>
    /\ UNCHANGED nonOpVars

(***************************************************************************)
(* A direct call of op.Reset() on an allocated operation (the method is    *)
(* callable on any operation a caller holds).                              *)
(***************************************************************************)
ResetCall(t, o) ==
    /\ pc[t] = "idle"
    /\ o <= nOps
    /\ pc' = [pc EXCEPT ![t] = "Reset"]
    /\ call' = [call EXCEPT ![t] = [NoCall EXCEPT !.name = "Reset"]]
    /\ cop' = [cop EXCEPT ![t] = o]
    /\ UNCHANGED <<joined, ret>>
    /\ UNCHANGED <<lxcContainerOperations, ops, nOps, watchdog, running, hook,
                   doneCalls>>
    /\ UNCHANGED nonOpVars

(***************************************************************************)
(* Start's body after createOperation: startCommon refuses a running       *)
(* container, a lower layer may fail, otherwise the runtime starts the     *)
(* container.  The value to return is kept until the deferred Done ran.    *)
(***************************************************************************)
StartBodyFail(t) ==
    /\ pc[t] = "startBody"
    /\ pc' = [pc EXCEPT ![t] = "deferDone"]
    /\ ret' = [ret EXCEPT ![t] = IF running THEN RunningError ELSE LowerError]
    /\ UNCHANGED <<lxcContainerOperations, ops, nOps, watchdog, running, call, cop,
                   joined, hook, doneCalls>>
    /\ UNCHANGED nonOpVars

StartBodyOk(t) ==
    /\ pc[t] = "startBody"
    /\ ~running
    /\ running' = TRUE
    /\ pc' = [pc EXCEPT ![t] = "deferDone"]
    /\ ret' = [ret EXCEPT ![t] = Nil]
    /\ UNCHANGED <<lxcContainerOperations, ops, nOps, watchdog, call, cop, joined,
                   hook, doneCalls>>
    /\ UNCHANGED nonOpVars

\* defer op.Done(nil), run when Start returns.
StartDeferDone(t) ==
    /\ pc[t] = "deferDone"
    /\ Done(cop[t], Nil)
    /\ doneCalls' = Called(cop[t])
    /\ pc' = [pc EXCEPT ![t] = "returned"]
    /\ cop' = [cop EXCEPT ![t] = NoOp]
    /\ joined' = [joined EXCEPT ![t] = FALSE]
    /\ UNCHANGED <<nOps, watchdog, running, call, ret, hook>>
    /\ UNCHANGED nonOpVars

(***************************************************************************)
(* Stop and Shutdown after createOperation.  A failure of initLXC or of    *)
(* c.c.Stop() / c.c.Shutdown(timeout) completes the operation with the     *)
(* error and returns it.  Otherwise the runtime stops the container, which *)
(* makes it call the OnStop hook, and the caller waits on the operation.   *)
(***************************************************************************)
StopBodyFail(t) ==
    /\ pc[t] = "stopBody"
    /\ Done(cop[t], LowerError)
    /\ doneCalls' = Called(cop[t])
    /\ Return(t, LowerError)
    /\ UNCHANGED <<nOps, watchdog, running, call, hook>>
    /\ UNCHANGED nonOpVars

StopBodyOk(t) ==
    /\ pc[t] = "stopBody"
    /\ running
    /\ hook.pc = "idle"
    /\ running' = FALSE
    /\ hook' = [hook EXCEPT !.pc = "pending"]
    /\ pc' = [pc EXCEPT ![t] = "Wait"]
    /\ UNCHANGED <<lxcContainerOperations, ops, nOps, watchdog, call, cop, joined,
                   ret, doneCalls>>
    /\ UNCHANGED nonOpVars

(***************************************************************************)
(* lxcContainerOperation.Wait (<-op.chanDone; return op.err) and what Stop *)
(* and Shutdown do with its result: err != nil && c.IsRunning() returns    *)
(* the error, anything else returns nil.                                   *)
(***************************************************************************)
WaitResult_always(op) == ops[op].err

WaitResult(op) == IF ops[op].err # Nil /\ running THEN ops[op].err ELSE Nil

Wait(t) ==
    /\ pc[t] = "Wait"
    /\ Closed(cop[t])
    /\ Return(t, WaitResult(cop[t]))
    /\ UNCHANGED <<lxcContainerOperations, ops, nOps, watchdog, running, call,
                   hook, doneCalls>>
    /\ UNCHANGED nonOpVars

(***************************************************************************)
(* OnStop, which the runtime calls once the container it was asked to stop *)
(* is down: op, _ := c.getOperation(""); an operation that is not a stop   *)
(* makes the hook return an error.                                         *)
(***************************************************************************)
OnStopLookup ==
    /\ hook.pc = "pending"
    /\ IF lxcContainerOperations # NoOp /\ ops[lxcContainerOperations].action # "stop"
         THEN hook' = [pc |-> "idle", op |-> NoOp]
         ELSE hook' = [pc |-> "body", op |-> lxcContainerOperations]
    /\ UNCHANGED <<lxcContainerOperations, ops, nOps, watchdog, running, pc, call, cop,
                   joined, ret, doneCalls>>
    /\ UNCHANGED nonOpVars

\* removeProxyDevices fails: the hook returns the error.
OnStopProxyFail ==
    /\ hook.pc = "body"
    /\ hook' = [pc |-> "idle", op |-> NoOp]
    /\ UNCHANGED <<lxcContainerOperations, ops, nOps, watchdog, running, pc, call, cop,
                   joined, ret, doneCalls>>
    /\ UNCHANGED nonOpVars

\* StorageStop fails: if op != nil { op.Done(err) }, and the hook returns the error.
OnStopStorageFail ==
    /\ hook.pc = "body"
    /\ IF hook.op # NoOp
         THEN /\ Done(hook.op, LowerError)
              /\ doneCalls' = Called(hook.op)
         ELSE UNCHANGED <<ops, lxcContainerOperations, doneCalls>>
    /\ hook' = [pc |-> "idle", op |-> NoOp]
    /\ UNCHANGED <<nOps, watchdog, running, pc, call, cop, joined, ret>>
    /\ UNCHANGED nonOpVars

\* The hook spawns its goroutine and returns nil.
OnStopSpawn ==
    /\ hook.pc = "body"
    /\ hook' = [hook EXCEPT !.pc = "goroutine"]
    /\ UNCHANGED <<lxcContainerOperations, ops, nOps, watchdog, running, pc, call, cop,
                   joined, ret, doneCalls>>
    /\ UNCHANGED nonOpVars

(***************************************************************************)
(* The goroutine of OnStop: its cleanup, and on return the deferred        *)
(* op.Done(err), whose argument was evaluated at the defer (err = nil).    *)
(***************************************************************************)
OnStopGoroutine ==
    /\ hook.pc = "goroutine"
    /\ IF hook.op # NoOp
         THEN /\ Done(hook.op, Nil)
              /\ doneCalls' = Called(hook.op)
         ELSE UNCHANGED <<ops, lxcContainerOperations, doneCalls>>
    /\ hook' = [pc |-> "idle", op |-> NoOp]
    /\ UNCHANGED <<nOps, watchdog, running, pc, call, cop, joined, ret>>
    /\ UNCHANGED nonOpVars

(***************************************************************************)
(* The watchdog goroutine of Create: the timer of the current round fires  *)
(* (30 seconds passed without a Reset), the select takes that case,        *)
(* op.Done is called with the timeout error and the goroutine returns.     *)
(***************************************************************************)
WatchdogFire(o) ==
    /\ watchdog[o].pc = "select"
    /\ Done(o, TimeoutError(o))
    /\ watchdog' = [watchdog EXCEPT ![o].pc = "exited"]
    /\ UNCHANGED <<nOps, running, pc, call, cop, joined, ret, hook, doneCalls>>
    /\ UNCHANGED nonOpVars

(***************************************************************************)
(* The id-map allocator.                                                   *)
(***************************************************************************)
Names == 1..NumContainers
NoName == 0
\* An unset config or volatile key ("").
Unset == -1

\* idMapSize = 65536 for an isolated container without security.idmap.size.
IsolatedDefaultSize == 65536
\* offset := state.OS.IdmapSet.Idmap[0].Hostid + 65536
AllocSkip == 65536

HostRange == HostBlocks * IsolatedDefaultSize
\* state.OS.IdmapSet.Idmap: one uid and one gid entry over the host's range.
IdmapEntry(isuid, isgid, nsid, hostid, maprange) ==
    [isuid |-> isuid, isgid |-> isgid, nsid |-> nsid, hostid |-> hostid,
     maprange |-> maprange]

HostIdmap == << IdmapEntry(TRUE, FALSE, 0, HostBase, HostRange),
                IdmapEntry(FALSE, TRUE, 0, HostBase, HostRange) >>

(***************************************************************************)
(* The configurations a container is created with or updated to: the keys  *)
(* security.privileged, security.idmap.isolated, security.idmap.base and   *)
(* security.idmap.size.                                                    *)
(***************************************************************************)
Config(privileged, isolated, base, size) ==
    [privileged |-> privileged, isolated |-> isolated, base |-> base, size |-> size]

NoConfig == Config(FALSE, FALSE, Unset, Unset)

Configs ==
    { Config(FALSE, FALSE, Unset, Unset),
      Config(TRUE, TRUE, Unset, Unset),
      Config(FALSE, TRUE, Unset, Unset),
      Config(FALSE, TRUE, Unset, 2 * IsolatedDefaultSize),
      Config(FALSE, TRUE, HostBase + AllocSkip + 1, Unset),
      Config(FALSE, TRUE, HostBase + AllocSkip + 1, 2 * IsolatedDefaultSize) }

NoRow == [exists |-> FALSE, cfg |-> NoConfig, base |-> Unset, next |-> << >>]

(***************************************************************************)
(* idmapSize: the configured size, else 65536 for an isolated container    *)
(* and the host map's range for the others.                                *)
(***************************************************************************)
idmapSize(isolated, size) ==
    IF size = Unset
      THEN IF isolated THEN IsolatedDefaultSize ELSE HostIdmap[1].maprange
      ELSE size

mkIdmap_mut(offset, size) ==
    << IdmapEntry(TRUE, FALSE, 0, offset, size),
       IdmapEntry(FALSE, TRUE, 0, offset + size, size) >>

\* mkIdmap inside findIdmap: a uid and a gid entry from offset, of size ids.
mkIdmap(offset, size) ==
    << IdmapEntry(TRUE, FALSE, 0, offset, size),
       IdmapEntry(FALSE, TRUE, 0, offset, size) >>

(***************************************************************************)
(* The containers findIdmap's scan takes into account: not the container   *)
(* it computes for, not the privileged ones, only the isolated ones.       *)
(***************************************************************************)
Scanned_self(db, n, cName) ==
    /\ db[n].exists
    /\ ~db[n].cfg.privileged
    /\ db[n].cfg.isolated

Scanned(db, n, cName) ==
    /\ db[n].exists
    /\ n # cName
    /\ ~db[n].cfg.privileged
    /\ db[n].cfg.isolated

\* cBase: volatile.idmap.base of the row, 0 when the key is not set.
cBase(row) == IF row.base = Unset THEN 0 ELSE row.base

\* The entry appended to mapentries for a scanned container.
MapEntry(row) ==
    [hostid |-> cBase(row), maprange |-> idmapSize(row.cfg.isolated, row.cfg.size)]

(***************************************************************************)
(* sort.Sort(mapentries) with ByHostid: the orders of the scanned          *)
(* containers' entries that are ascending in Hostid.  Entries with equal   *)
(* Hostid may come out in any order.                                       *)
(***************************************************************************)
Perms(S) ==
    { f \in [1..Cardinality(S) -> S] : \A i, j \in 1..Cardinality(S) : i # j => f[i] # f[j] }

SortedEntries(db, cName) ==
    LET S == {n \in Names : Scanned(db, n, cName)}
    IN { [i \in 1..Cardinality(S) |-> MapEntry(db[f[i]])] :
           f \in { g \in Perms(S) :
                     \A i, j \in 1..Cardinality(S) :
                        i < j => cBase(db[g[i]]) <= cBase(db[g[j]]) } }

End(e) == e.hostid + e.maprange

Found(base, set) == [err |-> "nil", base |-> base, set |-> set]
\* fmt.Errorf("Not enough uid/gid available for the container")
NotEnough == [err |-> "not-enough", base |-> 0, set |-> << >>]

(***************************************************************************)
(* The loop of findIdmap over the sorted entries (m[1] is mapentries[0])   *)
(* and the check against the host map's upper bound after it.              *)
(***************************************************************************)
RECURSIVE Scan(_, _, _, _)
Scan(m, i, offset, size) ==
    IF i > Len(m)
      THEN IF offset + size < HostIdmap[1].hostid + HostIdmap[1].maprange
             THEN Found(offset, mkIdmap(offset, size))
             ELSE NotEnough
      ELSE IF i = 1
        THEN IF m[1].hostid < offset + size
               THEN Scan(m, 2, End(m[1]), size)
               ELSE Found(offset, mkIdmap(offset, size))
        ELSE IF End(m[i - 1]) > offset
          THEN Scan(m, i + 1, End(m[i - 1]), size)
          ELSE IF End(m[i - 1]) + size < m[i].hostid
            THEN Found(End(m[i - 1]), mkIdmap(End(m[i - 1]), size))
            ELSE Scan(m, i + 1, End(m[i]), size)

(***************************************************************************)
(* findIdmap(state, cName, isolated, configBase, configSize, rawIdmap)     *)
(* without raw.idmap entries: the results it may return on the table db.   *)
(***************************************************************************)
findIdmap(db, cName, cfg) ==
    IF ~cfg.isolated
      THEN { Found(0, HostIdmap) }
      ELSE IF cfg.base # Unset
        THEN { Found(cfg.base, mkIdmap(cfg.base, idmapSize(cfg.isolated, cfg.size))) }
        ELSE { Scan(m, 1, HostIdmap[1].hostid + AllocSkip,
                    idmapSize(cfg.isolated, cfg.size)) :
                 m \in SortedEntries(db, cName) }

\* findIdmap takes idmapLock (the path with neither base nor shared map).
TakesLock(cfg) == cfg.isolated /\ cfg.base = Unset

(***************************************************************************)
(* What containerLXCCreate and Update store: without a privileged          *)
(* container the result of findIdmap, else base 0 and the empty map "[]".  *)
(***************************************************************************)
Persisted(row, cfg, r) ==
    [exists |-> TRUE, cfg |-> cfg, base |-> r.base, next |-> r.set]

PrivilegedResult == Found(0, << >>)

GivesBase(cfg) == cfg.base # Unset

IdmapInit ==
    /\ cts = [n \in Names |-> NoRow]
    /\ baseGiven = FALSE
    /\ ipc = [n \in Names |-> "idle"]
    /\ req = [n \in Names |-> NoConfig]
    /\ found = [n \in Names |-> PrivilegedResult]
    /\ idmapLock = NoName

(***************************************************************************)
(* Calls running one after another: a whole containerLXCCreate, a whole    *)
(* Update of the id-map keys, a Delete.  The row of a new container is in  *)
(* the table when containerLXCCreate runs; c.Delete() removes it when      *)
(* findIdmap fails.                                                        *)
(***************************************************************************)
Inserted(n, cfg) == [cts EXCEPT ![n] = [NoRow EXCEPT !.exists = TRUE, !.cfg = cfg]]

SeqCreate(n, cfg) ==
    /\ ~cts[n].exists
    /\ \E r \in (IF cfg.privileged THEN {PrivilegedResult}
                 ELSE findIdmap(Inserted(n, cfg), n, cfg)) :
          cts' = IF r.err = "nil"
                   THEN [cts EXCEPT ![n] = Persisted(cts[n], cfg, r)]
                   ELSE cts
    /\ baseGiven' = (baseGiven \/ GivesBase(cfg))
    /\ UNCHANGED <<ipc, req, found, idmapLock>>
    /\ UNCHANGED nonIdVars

SeqUpdate(n, cfg) ==
    /\ cts[n].exists
    /\ cfg # cts[n].cfg
    /\ \E r \in (IF cfg.privileged THEN {PrivilegedResult}
                 ELSE findIdmap(cts, n, cfg)) :
          cts' = IF r.err = "nil"
                   THEN [cts EXCEPT ![n] = Persisted(cts[n], cfg, r)]
                   ELSE cts
    /\ baseGiven' = (baseGiven \/ GivesBase(cfg))
    /\ UNCHANGED <<ipc, req, found, idmapLock>>
    /\ UNCHANGED nonIdVars

SeqDelete(n) ==
    /\ cts[n].exists
    /\ cts' = [cts EXCEPT ![n] = NoRow]
    /\ UNCHANGED <<baseGiven, ipc, req, found, idmapLock>>
    /\ UNCHANGED nonIdVars

(***************************************************************************)
(* Concurrent creations, each a containerLXCCreate running in its own      *)
(* goroutine.  A call reads the table inside findIdmap (containerLoadAll,  *)
(* under idmapLock on the scanning path) and stores its result afterwards, *)
(* outside the lock.                                                       *)
(***************************************************************************)
CreateBegin(n, cfg) ==
    /\ ipc[n] = "idle"
    /\ ~cts[n].exists
    /\ cts' = Inserted(n, cfg)
    /\ req' = [req EXCEPT ![n] = cfg]
    /\ ipc' = [ipc EXCEPT ![n] = "findIdmap"]
    /\ baseGiven' = (baseGiven \/ GivesBase(cfg))
    /\ UNCHANGED <<found, idmapLock>>
    /\ UNCHANGED nonIdVars

\* The paths of the call that do not scan: privileged, shared map, given base.
FindIdmapDirect(n) ==
    /\ ipc[n] = "findIdmap"
    /\ req[n].privileged \/ ~TakesLock(req[n])
    /\ \E r \in (IF req[n].privileged THEN {PrivilegedResult}
                 ELSE findIdmap(cts, n, req[n])) :
          found' = [found EXCEPT ![n] = r]
    /\ ipc' = [ipc EXCEPT ![n] = "persist"]
    /\ UNCHANGED <<cts, baseGiven, req, idmapLock>>
    /\ UNCHANGED nonIdVars

\* idmapLock.Lock()
FindIdmapLock(n) ==
    /\ ipc[n] = "findIdmap"
    /\ ~req[n].privileged /\ TakesLock(req[n])
    /\ idmapLock = NoName
    /\ idmapLock' = n
    /\ ipc' = [ipc EXCEPT ![n] = "scan"]
    /\ UNCHANGED <<cts, baseGiven, req, found>>
    /\ UNCHANGED nonIdVars

\* containerLoadAll, the scan and the decision; the deferred Unlock on return.
\* A failed findIdmap ends the call (containerLXCCreate deletes the row).
FindIdmapScan(n) ==
    /\ ipc[n] = "scan"
    /\ idmapLock = n
    /\ idmapLock' = NoName
    /\ \E r \in findIdmap(cts, n, req[n]) :
          IF r.err = "nil"
            THEN /\ found' = [found EXCEPT ![n] = r]
                 /\ ipc' = [ipc EXCEPT ![n] = "persist"]
                 /\ UNCHANGED <<cts, req>>
            ELSE /\ ipc' = [ipc EXCEPT ![n] = "idle"]
                 /\ cts' = [cts EXCEPT ![n] = NoRow]
                 /\ req' = [req EXCEPT ![n] = NoConfig]
                 /\ UNCHANGED found
    /\ UNCHANGED baseGiven
    /\ UNCHANGED nonIdVars

\* VolatileSet of volatile.idmap.next and volatile.idmap.base in containerLXCCreate.
Persist(n) ==
    /\ ipc[n] = "persist"
    /\ cts' = [cts EXCEPT ![n] = Persisted(cts[n], req[n], found[n])]
    /\ ipc' = [ipc EXCEPT ![n] = "idle"]
    /\ found' = [found EXCEPT ![n] = PrivilegedResult]
    /\ req' = [req EXCEPT ![n] = NoConfig]
    /\ UNCHANGED <<baseGiven, idmapLock>>
    /\ UNCHANGED nonIdVars

(***************************************************************************)
(* The persisted forms.  volatile.idmap.base is fmt.Sprintf("%v", base), a *)
(* decimal string; volatile.idmap.next is json.Marshal(idmap.Idmap), one   *)
(* object per entry with its numbers in decimal.  strconv.ParseInt and     *)
(* NextIdmap read them back.                                               *)
(***************************************************************************)
RECURSIVE Digits(_)
Digits(n) == IF n < 10 THEN << n >> ELSE Append(Digits(n \div 10), n % 10)

FormatInt(n) == [neg |-> n < 0, digits |-> Digits(IF n < 0 THEN 0 - n ELSE n)]

RECURSIVE Value(_)
Value(d) ==
    IF Len(d) = 0 THEN 0 ELSE Value(SubSeq(d, 1, Len(d) - 1)) * 10 + d[Len(d)]

ParseInt(str) == IF str.neg THEN 0 - Value(str.digits) ELSE Value(str.digits)

Marshal(set) ==
    [i \in 1..Len(set) |->
       [Isuid |-> set[i].isuid, Isgid |-> set[i].isgid,
        Hostid |-> FormatInt(set[i].hostid), Nsid |-> FormatInt(set[i].nsid),
        Maprange |-> FormatInt(set[i].maprange)]]

Unmarshal(json) ==
    [i \in 1..Len(json) |->
       IdmapEntry(json[i].Isuid, json[i].Isgid, ParseInt(json[i].Nsid),
                  ParseInt(json[i].Hostid), ParseInt(json[i].Maprange))]

(***************************************************************************)
(* raw.idmap.  A value is a sequence of lines (strings.Split on "\n"), a   *)
(* line a sequence of fields (strings.Split on " "), a range field the     *)
(* sequence of its parts (strings.Split on "-"), each part a string of     *)
(* digits.  The empty line (one empty field) is the empty sequence.        *)
(***************************************************************************)
Str(n) == FormatInt(n)
EmptyStr == [neg |-> FALSE, digits |-> << >>]
\* strconv.ParseInt fails on the empty string.
IsNumber(str) == Len(str.digits) > 0

RawTypes == { "both", "uid", "gid", "all" }

RawRanges ==
    { << Str(1000) >>,                 \* "1000"
      << Str(0), Str(9) >>,            \* "0-9"
      << Str(1000), Str(1009) >>,      \* "1000-1009"
      << Str(1000), Str(1010) >>,      \* "1000-1010"
      << EmptyStr, Str(5) >>,          \* "-5"
      << Str(1), Str(2), Str(3) >> }   \* "1-2-3"

TypeField(t) == [type |-> t, parts |-> << >>]
RangeField(r) == [type |-> "", parts |-> r]

BlankLine == << >>

RawLines ==
    { << TypeField(t), RangeField(o), RangeField(i) >> :
        t \in RawTypes, o \in RawRanges, i \in RawRanges }
    \cup { BlankLine,
           << TypeField("both"), RangeField(<< Str(1000) >>) >>,
           << TypeField("both"), RangeField(<< Str(1000) >>),
              RangeField(<< Str(1000) >>), RangeField(<< Str(1000) >>) >> }

\* One line, or a line after a blank line or after a line that parses.
RawValues ==
    { << l >> : l \in RawLines }
    \cup { << f, l >> :
             f \in { BlankLine,
                     << TypeField("uid"), RangeField(<< Str(0), Str(9) >>),
                        RangeField(<< Str(1000), Str(1009) >>) >> },
             l \in RawLines }

RawError(kind) == [err |-> kind, base |-> 0, set |-> << >>]

\* getRange inside parseRawIdmap: base and size of "start" or "start-end".
getRange(r) ==
    IF Len(r) > 2
      THEN [err |-> "range", base |-> -1, size |-> -1]
      ELSE IF ~IsNumber(r[1])
        THEN [err |-> "number", base |-> -1, size |-> -1]
        ELSE IF Len(r) > 1
          THEN IF ~IsNumber(r[2])
                 THEN [err |-> "number", base |-> -1, size |-> -1]
                 ELSE [err |-> "nil", base |-> ParseInt(r[1]),
                       size |-> ParseInt(r[2]) - ParseInt(r[1]) + 1]
          ELSE [err |-> "nil", base |-> ParseInt(r[1]), size |-> 1]

KnownType_any(t) == TRUE

\* The cases of the switch on entries[0].
KnownType(t) == t \in { "both", "uid", "gid" }

\* The entry built from a line.
RawEntry(t, outside, inside) ==
    IdmapEntry(t \in {"both", "uid"}, t \in {"both", "gid"},
               inside.base, outside.base, inside.size)

(***************************************************************************)
(* IdmapSet.AddSafe adds the entry to the set, or fails with               *)
(* ErrHostIdIsSubId when a host id of the entry collides with a reserved   *)
(* sub-id range: both outcomes are kept.                                   *)
(***************************************************************************)
AddSafe(set, entry) == { [err |-> "nil", set |-> Append(set, entry)],
                         [err |-> "ErrHostIdIsSubId", set |-> set] }

(***************************************************************************)
(* parseRawIdmap: the results it may return for lines i.. of the value,    *)
(* with the entries collected so far.                                      *)
(***************************************************************************)
RECURSIVE ParseLines(_, _, _)
ParseLines(value, i, entries) ==
    IF i > Len(value)
      THEN { [err |-> "nil", set |-> entries] }
      ELSE LET line == value[i] IN
        IF line = BlankLine
          THEN ParseLines(value, i + 1, entries)
          ELSE IF Len(line) # 3
            THEN { [err |-> "line", set |-> << >>] }
            ELSE LET outside == getRange(line[2].parts)
                     inside == getRange(line[3].parts)
                 IN IF outside.err # "nil"
                      THEN { [err |-> outside.err, set |-> << >>] }
                      ELSE IF inside.err # "nil"
                        THEN { [err |-> inside.err, set |-> << >>] }
                        ELSE IF inside.size # outside.size
                          THEN { [err |-> "sizes", set |-> << >>] }
                          ELSE IF ~KnownType(line[1].type)
                            THEN { [err |-> "type", set |-> << >>] }
                            ELSE UNION {
                                   IF a.err # "nil"
                                     THEN { [err |-> a.err, set |-> << >>] }
                                     ELSE ParseLines(value, i + 1, a.set) :
                                   a \in AddSafe(entries, RawEntry(line[1].type, outside, inside)) }

parseRawIdmap(value) == ParseLines(value, 1, << >>)

\* The AddSafe of every raw entry onto a computed set (findIdmap, mkIdmap).
RECURSIVE AddAll(_, _, _)
AddAll(set, rawMaps, i) ==
    IF i > Len(rawMaps)
      THEN { [err |-> "nil", set |-> set] }
      ELSE UNION { IF a.err # "nil" THEN { a } ELSE AddAll(a.set, rawMaps, i + 1) :
                   a \in AddSafe(set, rawMaps[i]) }

(***************************************************************************)
(* findIdmap with its rawIdmap argument: the error of parseRawIdmap comes  *)
(* first; otherwise the raw entries are added to the computed map.         *)
(***************************************************************************)
findIdmapRaw(db, cName, cfg, value) ==
    UNION { IF p.err # "nil"
              THEN { RawError(p.err) }
              ELSE UNION { IF r.err # "nil"
                             THEN { r }
                             ELSE { IF a.err # "nil" THEN RawError(a.err)
                                    ELSE Found(r.base, a.set) :
                                    a \in AddAll(r.set, p.set, 1) } :
                           r \in findIdmap(db, cName, cfg) } :
            p \in parseRawIdmap(value) }

NoRawRet == RawError("none")

RawIdle ==
    /\ rawIdmap = << >>
    /\ rawRet = NoRawRet

\* One findIdmap call for a container with the raw.idmap value.
FindIdmapRawCall(cfg) ==
    /\ rawRet = NoRawRet
    /\ \E r \in findIdmapRaw(cts, 1, cfg, rawIdmap) : rawRet' = r
    /\ UNCHANGED rawIdmap
    /\ UNCHANGED nonRawVars

(***************************************************************************)
(* The id-map remap of startCommon.  A volatile key is missing or holds    *)
(* the JSON of a list of entries; idmapsetFromString gives nil for an      *)
(* empty list.                                                             *)
(***************************************************************************)
Keys == { "volatile.last_state.idmap", "volatile.idmap.current", "volatile.idmap.next" }

Missing == [ok |-> FALSE, json |-> << >>]
Stored(set) == [ok |-> TRUE, json |-> Marshal(set)]

NilIdmap == [nil |-> TRUE, Idmap |-> << >>]
IdmapSet(set) == [nil |-> FALSE, Idmap |-> set]

idmapsetFromString(json) ==
    IF Len(json) = 0 THEN NilIdmap ELSE IdmapSet(Unmarshal(json))

\* DiskIdmap, CurrentIdmap and NextIdmap on the keys kv.
DiskIdmap(kv) ==
    IF ~kv["volatile.last_state.idmap"].ok
      THEN NilIdmap
      ELSE idmapsetFromString(kv["volatile.last_state.idmap"].json)

CurrentIdmap(kv) ==
    IF ~kv["volatile.idmap.current"].ok
      THEN DiskIdmap(kv)
      ELSE idmapsetFromString(kv["volatile.idmap.current"].json)

NextIdmapOf(kv) ==
    IF ~kv["volatile.idmap.next"].ok
      THEN CurrentIdmap(kv)
      ELSE idmapsetFromString(kv["volatile.idmap.next"].json)

\* The maps a container's keys hold: none ("[]"), the host's, an isolated block.
RemapMaps == { << >>, HostIdmap, mkIdmap(HostIdmap[1].hostid + AllocSkip, IsolatedDefaultSize) }

\* Ownership of the root filesystem: unshifted, shifted by a map, or left
\* half-way by a walk that failed.
Raw == [state |-> "raw", Idmap |-> << >>]
Shifted(set) == [state |-> "shifted", Idmap |-> set]
Partial == [state |-> "partial", Idmap |-> << >>]

\* The files after a complete UnshiftRootfs / ShiftRootfs walk with a map.
UnshiftRootfs(fs, m) == IF fs = Shifted(m.Idmap) THEN Raw ELSE Partial
ShiftRootfs(fs, m) == IF fs = Raw THEN Shifted(m.Idmap) ELSE Partial

\* if !nextIdmap.Equals(diskIdmap) && !(diskIdmap == nil && c.state.OS.Shiftfs)
NeedsRemap(next, disk, sfs) == next # disk /\ ~(disk.nil /\ sfs)

DoesUnshift_never(disk) == FALSE
\* if diskIdmap != nil
DoesUnshift(disk) == ~disk.nil

\* if nextIdmap != nil && !c.state.OS.Shiftfs
DoesShift(next, sfs) == ~next.nil /\ ~sfs

\* A container that was never started, or one that was started with map m
\* and stopped, whose keys name the map computed from its configuration.
RemapInit ==
    /\ shiftfs \in BOOLEAN
    /\ \E n \in RemapMaps :
          \/ /\ volatile = [k \in Keys |->
                              IF k = "volatile.idmap.next" THEN Stored(n) ELSE Missing]
             /\ rootfs = Raw
          \/ \E m \in RemapMaps :
                /\ volatile = [k \in Keys |->
                                 IF k = "volatile.idmap.next" THEN Stored(n)
                                 ELSE IF k = "volatile.last_state.idmap"
                                   THEN Stored(IF shiftfs THEN << >> ELSE m)
                                   ELSE Stored(m)]
                /\ rootfs = IF m = << >> \/ shiftfs THEN Raw ELSE Shifted(m)
    /\ spc = "stopped"
    /\ nextIdmap = NilIdmap
    /\ diskIdmap = NilIdmap
    /\ fsLog = << >>

RemapIdle ==
    /\ shiftfs = FALSE
    /\ volatile = [k \in Keys |-> Missing]
    /\ rootfs = Raw
    /\ spc = "stopped"
    /\ nextIdmap = NilIdmap
    /\ diskIdmap = NilIdmap
    /\ fsLog = << >>

\* startCommon reads both maps and decides whether to remap.
StartCommonIdmap ==
    /\ spc \in { "stopped", "failed" }
    /\ nextIdmap' = NextIdmapOf(volatile)
    /\ diskIdmap' = DiskIdmap(volatile)
    /\ fsLog' = << >>
    /\ spc' = IF NeedsRemap(NextIdmapOf(volatile), DiskIdmap(volatile), shiftfs)
                THEN "remap" ELSE "current"
    /\ UNCHANGED <<volatile, rootfs, shiftfs>>
    /\ UNCHANGED nonRemapVars

\* security.protection.shift is set, or StorageStart fails.
RemapRefused ==
    /\ spc = "remap"
    /\ spc' = "failed"
    /\ UNCHANGED <<volatile, rootfs, shiftfs, nextIdmap, diskIdmap, fsLog>>
    /\ UNCHANGED nonRemapVars

StorageStart ==
    /\ spc = "remap"
    /\ spc' = "unshift"
    /\ UNCHANGED <<volatile, rootfs, shiftfs, nextIdmap, diskIdmap, fsLog>>
    /\ UNCHANGED nonRemapVars

\* The unshift of diskIdmap, when there is one.
Unshift ==
    /\ spc = "unshift"
    /\ IF DoesUnshift(diskIdmap)
         THEN /\ rootfs' = UnshiftRootfs(rootfs, diskIdmap)
              /\ fsLog' = Append(fsLog, [op |-> "unshift", Idmap |-> diskIdmap.Idmap])
         ELSE UNCHANGED <<rootfs, fsLog>>
    /\ spc' = "shift"
    /\ UNCHANGED <<volatile, shiftfs, nextIdmap, diskIdmap>>
    /\ UNCHANGED nonRemapVars

\* The walk fails: the files it had reached stay changed, startCommon returns.
UnshiftFail ==
    /\ spc = "unshift"
    /\ DoesUnshift(diskIdmap)
    /\ rootfs' \in { rootfs, Partial }
    /\ fsLog' = Append(fsLog, [op |-> "unshift", Idmap |-> diskIdmap.Idmap])
    /\ spc' = "failed"
    /\ UNCHANGED <<volatile, shiftfs, nextIdmap, diskIdmap>>
    /\ UNCHANGED nonRemapVars

\* The shift of nextIdmap, when there is one and the host has no shiftfs.
Shift ==
    /\ spc = "shift"
    /\ IF DoesShift(nextIdmap, shiftfs)
         THEN /\ rootfs' = ShiftRootfs(rootfs, nextIdmap)
              /\ fsLog' = Append(fsLog, [op |-> "shift", Idmap |-> nextIdmap.Idmap])
         ELSE UNCHANGED <<rootfs, fsLog>>
    /\ spc' = "last_state"
    /\ UNCHANGED <<volatile, shiftfs, nextIdmap, diskIdmap>>
    /\ UNCHANGED nonRemapVars

ShiftFail ==
    /\ spc = "shift"
    /\ DoesShift(nextIdmap, shiftfs)
    /\ rootfs' \in { rootfs, Partial }
    /\ fsLog' = Append(fsLog, [op |-> "shift", Idmap |-> nextIdmap.Idmap])
    /\ spc' = "failed"
    /\ UNCHANGED <<volatile, shiftfs, nextIdmap, diskIdmap>>
    /\ UNCHANGED nonRemapVars

\* VolatileSet of volatile.last_state.idmap.
SetLastState ==
    /\ spc = "last_state"
    /\ volatile' = [volatile EXCEPT !["volatile.last_state.idmap"] =
                      IF DoesShift(nextIdmap, shiftfs)
                        THEN Stored(nextIdmap.Idmap) ELSE Stored(<< >>)]
    /\ spc' = "current"
    /\ UNCHANGED <<rootfs, shiftfs, nextIdmap, diskIdmap, fsLog>>
    /\ UNCHANGED nonRemapVars

SetLastStateFail ==
    /\ spc = "last_state"
    /\ spc' = "failed"
    /\ UNCHANGED <<volatile, rootfs, shiftfs, nextIdmap, diskIdmap, fsLog>>
    /\ UNCHANGED nonRemapVars

\* VolatileSet of volatile.idmap.current when it differs from the next map's JSON.
SetCurrent ==
    /\ spc = "current"
    /\ volatile' = [volatile EXCEPT !["volatile.idmap.current"] =
                      Stored(nextIdmap.Idmap)]
    /\ spc' = "starting"
    /\ UNCHANGED <<rootfs, shiftfs, nextIdmap, diskIdmap, fsLog>>
    /\ UNCHANGED nonRemapVars

SetCurrentFail ==
    /\ spc = "current"
    /\ volatile["volatile.idmap.current"] # Stored(nextIdmap.Idmap)
    /\ spc' = "failed"
    /\ UNCHANGED <<volatile, rootfs, shiftfs, nextIdmap, diskIdmap, fsLog>>
    /\ UNCHANGED nonRemapVars

\* The rest of startCommon and Start: the container runs, or Start fails.
StartRest ==
    /\ spc = "starting"
    /\ spc' \in { "started", "failed" }
    /\ UNCHANGED <<volatile, rootfs, shiftfs, nextIdmap, diskIdmap, fsLog>>
    /\ UNCHANGED nonRemapVars

StopStarted ==
    /\ spc = "started"
    /\ spc' = "stopped"
    /\ UNCHANGED <<volatile, rootfs, shiftfs, nextIdmap, diskIdmap, fsLog>>
    /\ UNCHANGED nonRemapVars

\* An Update of the stopped container that recomputes volatile.idmap.next.
UpdateNext(m) ==
    /\ spc \in { "stopped", "failed" }
    /\ volatile["volatile.idmap.next"] # Stored(m)
    /\ volatile' = [volatile EXCEPT !["volatile.idmap.next"] = Stored(m)]
    /\ UNCHANGED <<rootfs, shiftfs, spc, nextIdmap, diskIdmap, fsLog>>
    /\ UNCHANGED nonRemapVars

(***************************************************************************)
(* The configuration layers of one container and Update.  A config is a    *)
(* map over the keys below with "" for a key that is not set; a device set *)
(* is a map over the device names with NoDevice for a name that is absent. *)
(***************************************************************************)
ConfigKeys == { "security.privileged", "volatile.idmap.next", "volatile.idmap.base",
                "volatile.idmap.current" }
VolatileKeys == { "volatile.idmap.next", "volatile.idmap.base", "volatile.idmap.current" }

DeviceNames == { "root", "data" }

Device(type, path, pool) == [type |-> type, path |-> path, pool |-> pool]
NoDevice == Device("", "", "")
RootPool == Device("disk", "/", "default")
RootNoPool == Device("disk", "/", "")

Devices(root, data) == [n \in DeviceNames |-> IF n = "root" THEN root ELSE data]

\* The local device sets a request may carry.
DeviceSets ==
    { Devices(NoDevice, NoDevice), Devices(NoDevice, RootNoPool),
      Devices(NoDevice, RootPool), Devices(RootNoPool, NoDevice) }

\* The profiles of the project: their config and devices.
ProfileNames == { "default", "priv" }

ProfileConfig(name) ==
    [k \in ConfigKeys |->
       IF name = "priv" /\ k = "security.privileged" THEN "true" ELSE ""]

ProfileDevices(name) ==
    IF name = "default" THEN Devices(RootPool, NoDevice) ELSE Devices(NoDevice, NoDevice)

ProfileLists ==
    { << >>, << "default" >>, << "default", "priv" >>, << "default", "default" >> }

(***************************************************************************)
(* db.ProfilesExpandConfig and db.ProfilesExpandDevices: the profiles are  *)
(* applied in order, then the container's own keys and devices.            *)
(***************************************************************************)
RECURSIVE ExpandConfigFrom(_, _, _)
ExpandConfigFrom(acc, profs, i) ==
    IF i > Len(profs)
      THEN acc
      ELSE ExpandConfigFrom(
             [k \in ConfigKeys |->
                IF ProfileConfig(profs[i])[k] # "" THEN ProfileConfig(profs[i])[k] ELSE acc[k]],
             profs, i + 1)

ProfilesExpandConfig(local, profs) ==
    LET fromProfiles == ExpandConfigFrom([k \in ConfigKeys |-> ""], profs, 1)
    IN [k \in ConfigKeys |-> IF local[k] # "" THEN local[k] ELSE fromProfiles[k]]

RECURSIVE ExpandDevicesFrom(_, _, _)
ExpandDevicesFrom(acc, profs, i) ==
    IF i > Len(profs)
      THEN acc
      ELSE ExpandDevicesFrom(
             [n \in DeviceNames |->
                IF ProfileDevices(profs[i])[n] # NoDevice
                  THEN ProfileDevices(profs[i])[n] ELSE acc[n]],
             profs, i + 1)

ProfilesExpandDevices(local, profs) ==
    LET fromProfiles == ExpandDevicesFrom([n \in DeviceNames |-> NoDevice], profs, 1)
    IN [n \in DeviceNames |-> IF local[n] # NoDevice THEN local[n] ELSE fromProfiles[n]]

\* A device with type disk and path "/".
IsRootDisk(d) == d.type = "disk" /\ d.path = "/"

(***************************************************************************)
(* containerValidDevices on the expanded devices: zero or several root     *)
(* disk devices fail validation.                                           *)
(***************************************************************************)
containerValidDevices(devices) ==
    Cardinality({ n \in DeviceNames : IsRootDisk(devices[n]) }) = 1

\* "Duplicate profile found in request"
DuplicateProfile(profs) ==
    \E i, j \in 1..Len(profs) : i < j /\ profs[i] = profs[j]

RootDiskKeys_any(devices) == { n \in DeviceNames : IsRootDisk(devices[n]) }

\* The keys Update counts as root disk devices: type disk, path "/" and a pool.
RootDiskKeys(devices) ==
    { n \in DeviceNames : IsRootDisk(devices[n]) /\ devices[n].pool # "" }

\* "Make sure we have a valid root disk device (and only one)"
RootDiskError(devices) ==
    IF Cardinality(RootDiskKeys(devices)) > 1 THEN "only-one-root-disk"
    ELSE IF RootDiskKeys(devices) = { } THEN "no-root-disk"
    ELSE "nil"

\* IsPrivileged on an expanded config.
IsPrivileged(expanded) == expanded["security.privileged"] = "true"

\* The JSON of the next map: "[]" for a privileged container, else that of
\* the host's map (findIdmap for a container that is not isolated).
JsonEmpty == "[]"
JsonHost == "[host]"
NextJson(expanded) == IF IsPrivileged(expanded) THEN JsonEmpty ELSE JsonHost

\* The config of a request: the user's keys with the volatile keys as they are
\* ("Volatile keys are read-only").
ArgsConfig(privileged) ==
    [k \in ConfigKeys |->
       IF k = "security.privileged" THEN privileged ELSE localConfig[k]]

UpdateArgs == [Config : { ArgsConfig(v) : v \in { "", "true" } },
               Devices : DeviceSets, Profiles : ProfileLists]

NoArgs == [Config |-> [k \in ConfigKeys |-> ""], Devices |-> Devices(NoDevice, NoDevice),
           Profiles |-> << >>]

\* The localConfig of a successful Update: args.Config, with volatile.idmap.next
\* and volatile.idmap.base recomputed when security.privileged changed.
UpdatedLocalConfig(args, oldExpanded, newExpanded) ==
    IF oldExpanded["security.privileged"] # newExpanded["security.privileged"]
      THEN [args.Config EXCEPT !["volatile.idmap.next"] = NextJson(newExpanded),
                               !["volatile.idmap.base"] = "0"]
      ELSE args.Config

\* The error of the checks of Update that depend on the request alone.
UpdateError(args) ==
    LET newDevices == ProfilesExpandDevices(args.Devices, args.Profiles) IN
    IF DuplicateProfile(args.Profiles) THEN "duplicate-profile"
    ELSE IF ~containerValidDevices(newDevices) THEN "invalid-expanded-devices"
    ELSE IF RootDiskError(newDevices) # "nil" THEN RootDiskError(newDevices)
    ELSE "nil"

\* The state after Create: one profile, no device of its own, the map stored.
UpdInit ==
    /\ \E v \in { "", "true" } :
          LET expanded == ProfilesExpandConfig(
                             [k \in ConfigKeys |->
                                IF k = "security.privileged" THEN v ELSE ""], << "default" >>)
              local == [k \in ConfigKeys |->
                          IF k = "security.privileged" THEN v
                          ELSE IF k = "volatile.idmap.next" THEN NextJson(expanded)
                          ELSE IF k = "volatile.idmap.base" THEN "0" ELSE ""]
          IN /\ localConfig = local
             /\ expandedConfig = ProfilesExpandConfig(local, << "default" >>)
             /\ dbConfig = local
    /\ localDevices = Devices(NoDevice, NoDevice)
    /\ expandedDevices = ProfilesExpandDevices(Devices(NoDevice, NoDevice), << "default" >>)
    /\ profiles = << "default" >>
    /\ dbDevices = Devices(NoDevice, NoDevice)
    /\ dbProfiles = << "default" >>
    /\ updArgs = NoArgs
    /\ updRet = "none"

UpdIdle ==
    /\ localConfig = [k \in ConfigKeys |-> ""]
    /\ expandedConfig = [k \in ConfigKeys |-> ""]
    /\ dbConfig = [k \in ConfigKeys |-> ""]
    /\ localDevices = Devices(NoDevice, NoDevice)
    /\ expandedDevices = Devices(NoDevice, NoDevice)
    /\ profiles = << >>
    /\ dbDevices = Devices(NoDevice, NoDevice)
    /\ dbProfiles = << >>
    /\ updArgs = NoArgs
    /\ updRet = "none"

\* The layers Update has in memory when it reaches the database transaction.
NewExpandedConfig(args) == ProfilesExpandConfig(args.Config, args.Profiles)
NewLocalConfig(args) == UpdatedLocalConfig(args, expandedConfig, NewExpandedConfig(args))

UpdateRejected_noundo(args) ==
    /\ args \in UpdateArgs
    /\ \E e \in { UpdateError(args), "failed" } :
          /\ e # "nil"
          /\ updRet' = e
    /\ updArgs' = args
    /\ localConfig' = args.Config
    /\ expandedConfig' = NewExpandedConfig(args)
    /\ localDevices' = args.Devices
    /\ expandedDevices' = ProfilesExpandDevices(args.Devices, args.Profiles)
    /\ profiles' = args.Profiles
    /\ UNCHANGED <<dbConfig, dbDevices, dbProfiles>>
    /\ UNCHANGED nonUpdVars

\* Update returns an error: the deferred undoChanges puts the old layers back
\* (nothing was written to the database).
UpdateRejected(args) ==
    /\ args \in UpdateArgs
    /\ \E e \in { UpdateError(args), "failed" } :
          /\ e # "nil"
          /\ updRet' = e
    /\ updArgs' = args
    /\ UNCHANGED <<localConfig, expandedConfig, localDevices, expandedDevices, profiles,
                   dbConfig, dbDevices, dbProfiles>>
    /\ UNCHANGED nonUpdVars

\* Update fails after the transaction was committed (backup file, notifications):
\* the database keeps the new layers, undoChanges puts the old ones back in memory.
UpdateFailsLate(args) ==
    /\ args \in UpdateArgs
    /\ UpdateError(args) = "nil"
    /\ dbConfig' = NewLocalConfig(args)
    /\ dbDevices' = args.Devices
    /\ dbProfiles' = args.Profiles
    /\ updRet' = "late"
    /\ updArgs' = args
    /\ UNCHANGED <<localConfig, expandedConfig, localDevices, expandedDevices, profiles>>
    /\ UNCHANGED nonUpdVars

\* Update succeeds.
UpdateOk(args) ==
    /\ args \in UpdateArgs
    /\ UpdateError(args) = "nil"
    /\ localConfig' = NewLocalConfig(args)
    /\ expandedConfig' = NewExpandedConfig(args)
    /\ localDevices' = args.Devices
    /\ expandedDevices' = ProfilesExpandDevices(args.Devices, args.Profiles)
    /\ profiles' = args.Profiles
    /\ dbConfig' = NewLocalConfig(args)
    /\ dbDevices' = args.Devices
    /\ dbProfiles' = args.Profiles
    /\ updRet' = "nil"
    /\ updArgs' = args
    /\ UNCHANGED nonUpdVars

\* VolatileSet: the database first, then both in-memory configs.
VolatileSet(key, value) ==
    /\ dbConfig' = [dbConfig EXCEPT ![key] = value]
    /\ localConfig' = [localConfig EXCEPT ![key] = value]
    /\ expandedConfig' = [expandedConfig EXCEPT ![key] = value]

\* Start (startCommon) stores volatile.idmap.current when it differs from the
\* next map's JSON; the database update may fail.
StartSetsCurrent ==
    /\ localConfig["volatile.idmap.current"] # localConfig["volatile.idmap.next"]
    /\ \/ /\ VolatileSet("volatile.idmap.current", localConfig["volatile.idmap.next"])
          /\ updRet' = "nil"
       \/ /\ UNCHANGED <<dbConfig, localConfig, expandedConfig>>
          /\ updRet' = "failed"
    /\ updArgs' = NoArgs
    /\ UNCHANGED <<localDevices, expandedDevices, profiles, dbDevices, dbProfiles>>
    /\ UNCHANGED nonUpdVars

(***************************************************************************)
(* The lifecycle calls of one container, its hook and its watchdogs.       *)
(***************************************************************************)
Next ==
    \/ \E t \in Callers : StartCall(t)
    \/ \E t \in Callers : StopCall(t)
    \/ \E t \in Callers : ShutdownCall(t)
    \/ \E t \in Callers : CreateOperationLookup(t)
    \/ \E t \in Callers : CreateOperationInsert(t)
    \/ \E t \in Callers : ResetCheck(t)
    \/ \E t \in Callers : ResetDeliver(t)
    \/ \E t \in Callers : StartBodyFail(t)
    \/ \E t \in Callers : StartBodyOk(t)
    \/ \E t \in Callers : StartDeferDone(t)
    \/ \E t \in Callers : StopBodyFail(t)
    \/ \E t \in Callers : StopBodyOk(t)
    \/ \E t \in Callers : Wait(t)
    \/ OnStopLookup
    \/ OnStopProxyFail
    \/ OnStopStorageFail
    \/ OnStopSpawn
    \/ OnStopGoroutine
    \/ \E o \in Ops : WatchdogFire(o)

(***************************************************************************)
(* Live updates: one container with a nic "eth0" and a unix-char device    *)
(* "tty0", no profiles.  A device is a map over the keys below with "" for *)
(* a key that is not set, NoLiveDevice for a name that has no device.      *)
(***************************************************************************)
LiveNames == { "eth0", "tty0" }

LiveDevice(type, required, host_name, limits) ==
    [type |-> type, required |-> required, host_name |-> host_name, limits |-> limits]

NoLiveDevice == LiveDevice("", "", "", "")
Nic(host_name, limits) == LiveDevice("nic", "", host_name, limits)
UnixChar(required) == LiveDevice("unix-char", required, "", "")

LiveDevices(eth0, tty0) == [n \in LiveNames |-> IF n = "eth0" THEN eth0 ELSE tty0]

LiveDeviceSets ==
    { LiveDevices(e, t) :
        e \in { Nic("", ""), Nic("", "10"), Nic("vethA", ""), Nic("vethB", "") },
        t \in { NoLiveDevice, UnixChar(""), UnixChar("false") } }

\* The name deviceNextVeth gives.
GeneratedVeth == "vethN"

VolatileHostName == "volatile.eth0.host_name"

LiveConfig(hostName) == [k \in { VolatileHostName } |-> hostName]

\* description, architecture, ephemeral and expiryDate of a request.
Metas ==
    { [description |-> "a", architecture |-> 1, ephemeral |-> FALSE, expiryDate |-> 0],
      [description |-> "b", architecture |-> 2, ephemeral |-> TRUE, expiryDate |-> 1] }

LiveContainer(meta, hostName, devices) ==
    [description |-> meta.description, architecture |-> meta.architecture,
     ephemeral |-> meta.ephemeral, expiryDate |-> meta.expiryDate,
     localConfig |-> LiveConfig(hostName), expandedConfig |-> LiveConfig(hostName),
     localDevices |-> devices, expandedDevices |-> devices, profiles |-> << >>]

LiveArgs == [Meta : Metas, Devices : LiveDeviceSets]

\* shared.IsTrue
IsTrue(value) == value \in { "true", "1", "yes", "on" }

Required(m) == m.required = "" \/ IsTrue(m.required)

(***************************************************************************)
(* types.Devices.Update: the devices that differ between the old and the   *)
(* new set; one that differs only in keys a handler updates in place is    *)
(* updated, any other one is removed (the old device) and added (the new). *)
(***************************************************************************)
UpdatedInPlace(old, new) ==
    /\ old # NoLiveDevice
    /\ new # NoLiveDevice
    /\ [old EXCEPT !.limits = ""] = [new EXCEPT !.limits = ""]

DevicesUpdate_all(old, new) ==
    [removed |-> { k \in LiveNames : old[k] # NoLiveDevice },
     added |-> { k \in LiveNames : new[k] # NoLiveDevice },
     updated |-> { }]

DevicesUpdate(old, new) ==
    LET changed == { k \in LiveNames : old[k] # new[k] }
        updated == { k \in changed : UpdatedInPlace(old[k], new[k]) }
    IN [removed |-> { k \in changed \ updated : old[k] # NoLiveDevice },
        added |-> { k \in changed \ updated : new[k] # NoLiveDevice },
        updated |-> updated]

\* "if isRunning": the live changes are applied to a running container only.
AppliesLive_always(isRunning) == TRUE

AppliesLive(isRunning) == isRunning

\* The add loop starts when the remove loop is over.
AddReady_any(removeDevices) == TRUE

AddReady(removeDevices) == removeDevices = { }

Host(veths, peer, tty) == [veths |-> veths, peer |-> peer, tty |-> tty]
NoHost == Host({ }, "", FALSE)

Action(kind, name) == [kind |-> kind, name |-> name]

\* Update returns nil or an error; when it is an error the deferred undoChanges
\* stores the copies back.
LiveReturn(container, err) ==
    /\ lc' = container
    /\ lpc' = "idle"
    /\ lrm' = { }
    /\ ladd' = { }
    /\ lupd' = { }
    /\ lret' = err

LiveUndo(err) == LiveReturn(loldc, err)

LiveInitial == LiveDevices(Nic("", ""), NoLiveDevice)

LiveInit ==
    /\ lrunning \in BOOLEAN
    /\ lc = LiveContainer(CHOOSE m \in Metas : m.description = "a",
                          IF lrunning THEN GeneratedVeth ELSE "", LiveInitial)
    /\ lhost = IF lrunning THEN Host({ GeneratedVeth }, GeneratedVeth, FALSE) ELSE NoHost
    /\ lpc = "idle"
    /\ lrm = { }
    /\ ladd = { }
    /\ lupd = { }
    /\ loldc = lc
    /\ lentry = lc
    /\ llog = << >>
    /\ lskipped = { }
    /\ lwatches = { }
    /\ levents = 0
    /\ lret = "none"
    /\ lcall = "none"

LiveIdle ==
    /\ lrunning = FALSE
    /\ lc = LiveContainer(CHOOSE m \in Metas : m.description = "a", "", LiveInitial)
    /\ lhost = NoHost
    /\ lpc = "idle"
    /\ lrm = { }
    /\ ladd = { }
    /\ lupd = { }
    /\ loldc = lc
    /\ lentry = lc
    /\ llog = << >>
    /\ lskipped = { }
    /\ lwatches = { }
    /\ levents = 0
    /\ lret = "none"
    /\ lcall = "none"

\* Update fails a validation before it has changed anything.
LiveUpdateInvalid ==
    /\ lpc = "idle"
    /\ lentry' = lc
    /\ llog' = << >>
    /\ lskipped' = { }
    /\ levents' = 0
    /\ lret' = "invalid"
    /\ lcall' = "update"
    /\ UNCHANGED <<lc, lrunning, lhost, lpc, lrm, ladd, lupd, loldc, lwatches>>
    /\ UNCHANGED nonLiveVars

\* Update copies the old fields, applies the request, expands and diffs the devices.
LiveUpdateBegin(args) ==
    /\ lpc = "idle"
    /\ LET diff == DevicesUpdate(lc.expandedDevices, args.Devices) IN
          /\ lrm' = IF AppliesLive(lrunning) THEN diff.removed ELSE { }
          /\ ladd' = IF AppliesLive(lrunning) THEN diff.added ELSE { }
          /\ lupd' = IF AppliesLive(lrunning) THEN diff.updated ELSE { }
    /\ loldc' = lc
    /\ lentry' = lc
    /\ lc' = [lc EXCEPT !.description = args.Meta.description,
                        !.architecture = args.Meta.architecture,
                        !.ephemeral = args.Meta.ephemeral,
                        !.expiryDate = args.Meta.expiryDate,
                        !.localDevices = args.Devices,
                        !.expandedConfig = lc.localConfig,
                        !.expandedDevices = args.Devices]
    /\ lpc' = "update"
    /\ llog' = << >>
    /\ lskipped' = { }
    /\ levents' = 0
    /\ lret' = "none"
    /\ lcall' = "update"
    /\ UNCHANGED <<lrunning, lhost, lwatches>>
    /\ UNCHANGED nonLiveVars

\* The remove loop: a unix device that is optional and not in the devices folder
\* is passed over, any other device is detached.
SkipsRemove(m) == m.type = "unix-char" /\ ~lhost.tty /\ ~Required(m)

LiveRemove(k) ==
    /\ lpc = "update"
    /\ k \in lrm
    /\ lrm' = lrm \ { k }
    /\ IF SkipsRemove(loldc.expandedDevices[k])
         THEN UNCHANGED <<lhost, llog>>
         ELSE /\ llog' = Append(llog, Action("detach", k))
              /\ lhost' = IF k = "eth0"
                            THEN Host(lhost.veths \ { lhost.peer }, "", lhost.tty)
                            ELSE Host(lhost.veths, lhost.peer, FALSE)
    /\ UNCHANGED <<lc, lrunning, lpc, ladd, lupd, loldc, lentry, lskipped, lwatches,
                   levents, lret, lcall>>
    /\ UNCHANGED nonLiveVars

LiveRemoveFail(k) ==
    /\ lpc = "update"
    /\ k \in lrm
    /\ ~SkipsRemove(loldc.expandedDevices[k])
    /\ LiveUndo("detach-failed")
    /\ UNCHANGED <<lrunning, lhost, loldc, lentry, llog, lskipped, lwatches, levents, lcall>>
    /\ UNCHANGED nonLiveVars

HostSideName_generated(m) == GeneratedVeth

\* createNetworkDevice: the host side name is the configured one or a new one.
HostSideName(m) == IF m.host_name # "" THEN m.host_name ELSE GeneratedVeth

\* The add loop: insertUnixDevice or insertNetworkDevice succeeds.
LiveAdd(k) ==
    /\ lpc = "update"
    /\ AddReady(lrm)
    /\ k \in ladd
    /\ ladd' = ladd \ { k }
    /\ llog' = Append(llog, Action("attach", k))
    /\ IF k = "eth0"
         THEN LET n1 == HostSideName(lc.expandedDevices[k]) IN
                /\ n1 \notin lhost.veths
                /\ lhost' = Host(lhost.veths \cup { n1 }, n1, lhost.tty)
                /\ lc' = [lc EXCEPT !.localConfig[VolatileHostName] = n1]
         ELSE /\ lhost' = Host(lhost.veths, lhost.peer, TRUE)
              /\ lc' = lc
    /\ UNCHANGED <<lrunning, lpc, lrm, lupd, loldc, lentry, lskipped, lwatches, levents,
                   lret, lcall>>
    /\ UNCHANGED nonLiveVars

\* insertUnixDevice fails for an optional device: the loop goes on.
LiveAddSkip(k) ==
    /\ lpc = "update"
    /\ AddReady(lrm)
    /\ k \in ladd
    /\ lc.expandedDevices[k].type = "unix-char"
    /\ ~Required(lc.expandedDevices[k])
    /\ ladd' = ladd \ { k }
    /\ lskipped' = lskipped \cup { k }
    /\ UNCHANGED <<lc, lrunning, lhost, lpc, lrm, lupd, loldc, lentry, llog, lwatches,
                   levents, lret, lcall>>
    /\ UNCHANGED nonLiveVars

\* The attach fails for a nic or for a required unix device: Update returns the error.
LiveAddFail(k) ==
    /\ lpc = "update"
    /\ AddReady(lrm)
    /\ k \in ladd
    /\ lc.expandedDevices[k].type = "nic" \/ Required(lc.expandedDevices[k])
    /\ LiveUndo("attach-failed")
    /\ UNCHANGED <<lrunning, lhost, loldc, lentry, llog, lskipped, lwatches, levents, lcall>>
    /\ UNCHANGED nonLiveVars

\* setupHostVethDevice fills the host_name of oldDevice, which is the device in
\* Update's copy of the old expanded devices, from the volatile key.
FilledOld(k) ==
    IF loldc.expandedDevices[k].host_name = ""
      THEN [loldc EXCEPT !.expandedDevices[k].host_name = lc.localConfig[VolatileHostName]]
      ELSE loldc

\* The host side name setupHostVethDevice finds for the new device.
FilledHostName(k) ==
    IF lc.expandedDevices[k].host_name # ""
      THEN lc.expandedDevices[k].host_name
      ELSE lc.localConfig[VolatileHostName]

\* The update loop: updateNetworkDevice succeeds.
LiveUpdateDevice(k) ==
    /\ lpc = "update"
    /\ lrm = { }
    /\ ladd = { }
    /\ k \in lupd
    /\ FilledHostName(k) # ""
    /\ lupd' = lupd \ { k }
    /\ loldc' = FilledOld(k)
    /\ llog' = Append(llog, Action("update", k))
    /\ UNCHANGED <<lc, lrunning, lhost, lpc, lrm, ladd, lentry, lskipped, lwatches, levents,
                   lret, lcall>>
    /\ UNCHANGED nonLiveVars

\* updateNetworkDevice fails: no host side name, or the limits or routes fail.
LiveUpdateDeviceFail(k) ==
    /\ lpc = "update"
    /\ lrm = { }
    /\ ladd = { }
    /\ k \in lupd
    /\ loldc' = FilledOld(k)
    /\ LiveReturn(FilledOld(k), "update-failed")
    /\ UNCHANGED <<lrunning, lhost, lentry, llog, lskipped, lwatches, levents, lcall>>
    /\ UNCHANGED nonLiveVars

\* "Cleanup any leftover volatile entries": the volatile host name goes unless the
\* nic is there without a host_name of its own.
CleanedUp(container) ==
    IF /\ container.expandedDevices["eth0"].type = "nic"
       /\ container.expandedDevices["eth0"].host_name = ""
      THEN container
      ELSE [container EXCEPT !.localConfig[VolatileHostName] = "",
                             !.expandedConfig[VolatileHostName] = ""]

\* The loops are over (or the container is not running): the database is written,
\* container-updated is sent and Update returns nil.
LivePersist ==
    /\ lpc = "update"
    /\ lrm = { }
    /\ ladd = { }
    /\ lupd = { }
    /\ LiveReturn(CleanedUp(lc), "nil")
    /\ levents' = levents + 1
    /\ UNCHANGED <<lrunning, lhost, loldc, lentry, llog, lskipped, lwatches, lcall>>
    /\ UNCHANGED nonLiveVars

\* The database update, the backup file or a notification fails.
LivePersistFail ==
    /\ lpc = "update"
    /\ lrm = { }
    /\ ladd = { }
    /\ lupd = { }
    /\ LiveUndo("failed")
    /\ UNCHANGED <<lrunning, lhost, loldc, lentry, llog, lskipped, lwatches, levents, lcall>>
    /\ UNCHANGED nonLiveVars

\* Start creates the devices of the expanded set.  A unix device that cannot be
\* created fails the Start when it is required; when it is optional its source
\* is added to the inotify targets and the device is passed over.
LiveStartBegin ==
    /\ lpc = "idle"
    /\ ~lrunning
    /\ lentry' = lc
    /\ llog' = << >>
    /\ lskipped' = { }
    /\ levents' = 0
    /\ lcall' = "start"

LiveStarted(tty, skipped) ==
    LET n1 == HostSideName(lc.expandedDevices["eth0"]) IN
    /\ lrunning' = TRUE
    /\ lhost' = Host({ n1 }, n1, tty)
    /\ lc' = IF lc.expandedDevices["eth0"].host_name = ""
               THEN [lc EXCEPT !.localConfig[VolatileHostName] = n1,
                               !.expandedConfig[VolatileHostName] = n1]
               ELSE lc
    /\ lskipped' = skipped
    /\ lret' = "nil"

LiveStart ==
    /\ LiveStartBegin
    /\ LiveStarted(lc.expandedDevices["tty0"] # NoLiveDevice, { })
    /\ UNCHANGED <<lpc, lrm, ladd, lupd, loldc, lwatches>>
    /\ UNCHANGED nonLiveVars

LiveStartSkip ==
    /\ lpc = "idle"
    /\ ~lrunning
    /\ lc.expandedDevices["tty0"] # NoLiveDevice
    /\ ~Required(lc.expandedDevices["tty0"])
    /\ lentry' = lc
    /\ llog' = << >>
    /\ levents' = 0
    /\ lcall' = "start"
    /\ LiveStarted(FALSE, { "tty0" })
    /\ lwatches' = lwatches \cup { "tty0" }
    /\ UNCHANGED <<lpc, lrm, ladd, lupd, loldc>>
    /\ UNCHANGED nonLiveVars

\* The unix device is required, or the inotify target cannot be added.
LiveStartFail ==
    /\ LiveStartBegin
    /\ lc.expandedDevices["tty0"] # NoLiveDevice
    /\ lret' = "attach-failed"
    /\ UNCHANGED <<lc, lrunning, lhost, lpc, lrm, ladd, lupd, loldc, lwatches>>
    /\ UNCHANGED nonLiveVars

LiveStop ==
    /\ lpc = "idle"
    /\ lrunning
    /\ lrunning' = FALSE
    /\ lhost' = NoHost
    /\ lentry' = lc
    /\ llog' = << >>
    /\ lskipped' = { }
    /\ levents' = 0
    /\ lret' = "nil"
    /\ lcall' = "stop"
    /\ UNCHANGED <<lc, lpc, lrm, ladd, lupd, loldc, lwatches>>
    /\ UNCHANGED nonLiveVars

(***************************************************************************)
(* addDiskDevices.  A disk device is its path and its source; the paths    *)
(* are listed in the order of Go's string comparison.                      *)
(***************************************************************************)
DiskNames == { "d1", "d2", "d3" }
DiskPaths == << "/mnt", "/mnt/sub", "/opt" >>
DiskSources == { "/srv/a", "/srv/b" }

Disk(path, source) == [type |-> "disk", path |-> path, source |-> source]
NoDisk == Disk("", "")

DiskValues ==
    { NoDisk } \cup { Disk(DiskPaths[i], src) : i \in 1..Len(DiskPaths), src \in DiskSources }

\* a[i]["path"] < a[j]["path"]
PathRank(path) == CHOOSE i \in 1..Len(DiskPaths) : DiskPaths[i] = path
Less(a, b) == PathRank(a.path) < PathRank(b.path)

\* The keys of the map.
DiskKeys(devices) == { k \in DiskNames : devices[k] # NoDisk }

\* sort.Sort(ordered): the devices of the map, each as often as the map holds it,
\* with no device after one it is less than.
Sorted(devices) ==
    { seq \in [1..Cardinality(DiskKeys(devices)) -> DiskValues \ { NoDisk }] :
        /\ \A d \in DiskValues \ { NoDisk } :
              Cardinality({ i \in DOMAIN seq : seq[i] = d })
                = Cardinality({ k \in DiskKeys(devices) : devices[k] = d })
        /\ \A i, j \in DOMAIN seq : i < j => ~Less(seq[j], seq[i]) }

\* The inner loop: the first key, in the map's iteration order, whose device is
\* deeply equal to d.
MatchingKeys(devices, d) == { k \in DiskKeys(devices) : devices[k] = d }

DiskInit ==
    /\ diskDevices \in [DiskNames -> DiskValues]
    /\ ordered = << >>
    /\ handled = << >>
    /\ dpc = "idle"
    /\ dret = "none"

DiskIdle ==
    /\ diskDevices = [k \in DiskNames |-> NoDisk]
    /\ ordered = << >>
    /\ handled = << >>
    /\ dpc = "idle"
    /\ dret = "none"

\* ordered is filled from the map and sorted by path.
AddDiskDevicesSort ==
    /\ dpc = "idle"
    /\ ordered' \in Sorted(diskDevices)
    /\ dpc' = "loop"
    /\ UNCHANGED <<diskDevices, handled, dret>>
    /\ UNCHANGED nonDiskVars

\* One round of the loop: the key is looked up and the handler succeeds.
AddDiskDevicesHandle ==
    /\ dpc = "loop"
    /\ ordered # << >>
    /\ \E key \in MatchingKeys(diskDevices, Head(ordered)) :
          handled' = Append(handled, [key |-> key, device |-> Head(ordered)])
    /\ ordered' = Tail(ordered)
    /\ UNCHANGED <<diskDevices, dpc, dret>>
    /\ UNCHANGED nonDiskVars

\* The handler fails: addDiskDevices returns its error.
AddDiskDevicesFail ==
    /\ dpc = "loop"
    /\ ordered # << >>
    /\ dpc' = "done"
    /\ dret' = "failed"
    /\ UNCHANGED <<diskDevices, ordered, handled>>
    /\ UNCHANGED nonDiskVars

AddDiskDevicesReturn ==
    /\ dpc = "loop"
    /\ ordered = << >>
    /\ dpc' = "done"
    /\ dret' = "nil"
    /\ UNCHANGED <<diskDevices, ordered, handled>>
    /\ UNCHANGED nonDiskVars

(***************************************************************************)
(* getLxcState: the state probe with its timeout.                          *)
(***************************************************************************)
TimeoutSeconds == 5

LxcStates == { "STOPPED", "STARTING", "RUNNING", "STOPPING", "ABORTING", "FREEZING",
               "FROZEN", "THAWED" }

LxcMonitorStateError == "Monitor is hung"

StateResult(state, err) == [state |-> state, err |-> err]
NoStateResult == StateResult("", "none")

\* case <-time.After(5 * time.Second)
TimedOut_stopped == StateResult("STOPPED", LxcMonitorStateError)

TimedOut == StateResult("FROZEN", LxcMonitorStateError)

\* containerLXC.State on a result: any error is reported as "Error".
State(result) == IF result.err # "nil" THEN "Error" ELSE result.state

\* containerLXC.IsFrozen and IsRunning on a result.
IsFrozen(result) == State(result) = "FROZEN"
IsRunning(result) == State(result) # "BROKEN" /\ State(result) # "STOPPED"

ProbeInit ==
    /\ lxcState \in LxcStates
    /\ ppc = "idle"
    /\ probe = "none"
    /\ monitor = << >>
    /\ elapsed = 0
    /\ probeRet = NoStateResult

ProbeIdle ==
    /\ lxcState = "STOPPED"
    /\ ppc = "idle"
    /\ probe = "none"
    /\ monitor = << >>
    /\ elapsed = 0
    /\ probeRet = NoStateResult

\* The container changes state while nobody asks.
LxcStateChange(state) ==
    /\ ppc # "select"
    /\ probe # "asking"
    /\ state # lxcState
    /\ lxcState' = state
    /\ UNCHANGED <<ppc, probe, monitor, elapsed, probeRet>>
    /\ UNCHANGED nonProbeVars

\* getLxcState makes the channel, starts the goroutine and enters the select.
GetLxcState ==
    /\ ppc # "select"
    /\ probe # "asking"
    /\ ppc' = "select"
    /\ probe' = "asking"
    /\ monitor' = << >>
    /\ elapsed' = 0
    /\ probeRet' = NoStateResult
    /\ UNCHANGED lxcState
    /\ UNCHANGED nonProbeVars

\* initLXC fails: STOPPED and the error.
GetLxcStateInitFail ==
    /\ ppc # "select"
    /\ probe # "asking"
    /\ ppc' = "returned"
    /\ probeRet' = StateResult("STOPPED", "init-failed")
    /\ UNCHANGED <<lxcState, probe, monitor, elapsed>>
    /\ UNCHANGED nonProbeVars

\* The goroutine: c.State() answers and the state goes into the channel, which
\* has room for it whether or not anybody still listens.
ProbeAnswers ==
    /\ probe = "asking"
    /\ probe' = "done"
    /\ monitor' = << lxcState >>
    /\ UNCHANGED <<lxcState, ppc, elapsed, probeRet>>
    /\ UNCHANGED nonProbeVars

\* A second passes in the select.
SelectWaits ==
    /\ ppc = "select"
    /\ elapsed < TimeoutSeconds
    /\ elapsed' = elapsed + 1
    /\ UNCHANGED <<lxcState, ppc, probe, monitor, probeRet>>
    /\ UNCHANGED nonProbeVars

\* case state := <-monitor
SelectReceives ==
    /\ ppc = "select"
    /\ monitor # << >>
    /\ ppc' = "returned"
    /\ probeRet' = StateResult(Head(monitor), "nil")
    /\ monitor' = << >>
    /\ UNCHANGED <<lxcState, probe, elapsed>>
    /\ UNCHANGED nonProbeVars

\* case <-time.After(5 * time.Second)
SelectTimesOut ==
    /\ ppc = "select"
    /\ elapsed = TimeoutSeconds
    /\ ppc' = "returned"
    /\ probeRet' = TimedOut
    /\ UNCHANGED <<lxcState, probe, monitor, elapsed>>
    /\ UNCHANGED nonProbeVars

(***************************************************************************)
(* The lifecycle calls as whole calls: Start, Stop, Shutdown, Freeze and   *)
(* Unfreeze of one container, each with its guards, the outcomes of the    *)
(* layers below it, the runtime state it leaves and the lifecycle events   *)
(* it sends (eventSendLifecycle).  Calls are made one after the other; the *)
(* registry may hold the operation of another request in flight.           *)
(***************************************************************************)
LifeStates == { "STOPPED", "RUNNING", "FROZEN" }

\* The registry entry as the calls see it: the action and the reusable flag.
LifeOp(action, reusable) == [action |-> action, reusable |-> reusable]
NoLifeOp == LifeOp("", FALSE)
\* Start and Stop create a non-reusable operation, Shutdown a reusable one.
LifeOps == { LifeOp("start", FALSE), LifeOp("stop", FALSE), LifeOp("stop", TRUE) }

LifeCall(name, withState) == [name |-> name, stateful |-> withState]
NoLifeCall == LifeCall("", FALSE)

NotRunningError == Err("not-running", "")
FrozenError == Err("already-frozen", "")
NoStateError == Err("no-state", "")

\* c.IsRunning(): state != "BROKEN" && state != "STOPPED".
LifeIsRunning == cstate # "STOPPED"
\* c.IsFrozen(): state == "FROZEN".
LifeIsFrozen == cstate = "FROZEN"

\* createOperation(action, reusable, reuse) on the registry entry: an operation
\* in flight is joined if reuse is asked and it is reusable, otherwise the
\* container is busy.
BusyWith(op, reuse) == op # NoLifeOp /\ ~(reuse /\ op.reusable)

LifeBusy(reuse) == BusyWith(lifeOp, reuse)

LifeInit ==
    /\ cstate = "STOPPED"
    /\ cgroupFreezer \in BOOLEAN
    /\ cgroupPids \in BOOLEAN
    /\ stateful \in BOOLEAN
    /\ lifeOp = NoLifeOp
    /\ lifeCall = NoLifeCall
    /\ lifeEntry = [state |-> "STOPPED", op |-> NoLifeOp]
    /\ lifeEvents = << >>
    /\ lifeRet = NoRet
    /\ restartRet = NoRet

LifeIdle ==
    /\ cstate = "STOPPED"
    /\ cgroupFreezer = FALSE
    /\ cgroupPids = FALSE
    /\ stateful = FALSE
    /\ lifeOp = NoLifeOp
    /\ lifeCall = NoLifeCall
    /\ lifeEntry = [state |-> "STOPPED", op |-> NoLifeOp]
    /\ lifeEvents = << >>
    /\ lifeRet = NoRet
    /\ restartRet = NoRet

\* A call returns err having sent the events and left the runtime in state.
LifeReturns(c, err, events, state) ==
    /\ lifeCall' = c
    /\ lifeEntry' = [state |-> cstate, op |-> lifeOp]
    /\ lifeRet' = err
    /\ lifeEvents' = events
    /\ cstate' = state
    /\ restartRet' = NoRet
    /\ UNCHANGED <<cgroupFreezer, cgroupPids>>
    /\ UNCHANGED nonLifeVars

\* A call that fails before it touched anything.
LifeRefused(c, err) ==
    /\ LifeReturns(c, err, << >>, cstate)
    /\ UNCHANGED <<stateful, lifeOp>>

(***************************************************************************)
(* Another request's call registers its operation, or completes it.        *)
(***************************************************************************)
OtherOperation(o) ==
    /\ lifeOp = NoLifeOp
    /\ lifeOp' = o
    /\ UNCHANGED <<cstate, cgroupFreezer, cgroupPids, stateful, lifeCall, lifeEntry,
                   lifeEvents, lifeRet, restartRet>>
    /\ UNCHANGED nonLifeVars

OtherDone ==
    /\ lifeOp # NoLifeOp
    /\ lifeOp' = NoLifeOp
    /\ UNCHANGED <<cstate, cgroupFreezer, cgroupPids, stateful, lifeCall, lifeEntry,
                   lifeEvents, lifeRet, restartRet>>
    /\ UNCHANGED nonLifeVars

(***************************************************************************)
(* Start(stateful).  createOperation("start", false, false) and the        *)
(* deferred op.Done(nil): the registry entry is the call's own from there  *)
(* to the return.  startCommon refuses a running container.                *)
(***************************************************************************)
StartRefused(s) ==
    /\ LifeBusy(FALSE) \/ LifeIsRunning
    /\ LifeRefused(LifeCall("Start", s),
                   IF LifeBusy(FALSE) THEN Err("busy", lifeOp.action) ELSE RunningError)

\* setupSharedMounts, initLXC (both before the running check), the rest of
\* startCommon, StorageStart, the removal of the state directory, the restore
\* (Migrate) or forkstart fails and the container is not started; a stateful
\* start of a container without state is refused.
StartFail(s) ==
    /\ ~LifeBusy(FALSE)
    /\ \/ /\ ~LifeIsRunning /\ s /\ ~stateful
          /\ LifeReturns(LifeCall("Start", s), NoStateError, << >>, cstate)
       \/ LifeReturns(LifeCall("Start", s), LowerError, << >>, cstate)
    /\ UNCHANGED <<stateful, lifeOp>>

\* The stateless start of a container that has state: the state is dropped,
\* c.stateful is cleared and ContainerSetStateful fails.
StartPersistFail ==
    /\ ~LifeBusy(FALSE)
    /\ ~LifeIsRunning
    /\ stateful
    /\ LifeReturns(LifeCall("Start", FALSE), LowerError, << >>, cstate)
    /\ stateful' = FALSE
    /\ UNCHANGED lifeOp

\* The stateful start restored the container, then ContainerSetStateful
\* fails: Start returns the error.
StartLateFail(s) ==
    /\ ~LifeBusy(FALSE)
    /\ ~LifeIsRunning
    /\ s /\ stateful
    /\ LifeReturns(LifeCall("Start", s), LowerError, << >>, "RUNNING")
    /\ stateful' = FALSE
    /\ UNCHANGED lifeOp

ProxyError == Err("proxy-devices", "")

\* The cleanup c.Stop(false) that Start issues while its own operation,
\* created by createOperation("start", false, false), is registered: Stop finds
\* the container running and calls createOperation("stop", false, true).
CleanupStopAdmitted == ~BusyWith(LifeOp("start", FALSE), TRUE)

\* The container runs, then restartProxyDevices fails: Start calls
\* c.Stop(false), drops its result and returns the error.
StartProxyFail(s) ==
    /\ ~LifeBusy(FALSE)
    /\ ~LifeIsRunning
    /\ s => stateful
    /\ \E stopped \in (IF CleanupStopAdmitted THEN BOOLEAN ELSE { FALSE }) :
          LifeReturns(LifeCall("Start", s), ProxyError, << >>,
                      IF stopped THEN "STOPPED" ELSE "RUNNING")
    /\ stateful' = FALSE
    /\ UNCHANGED lifeOp

\* What a successful Start sends: the stateful branch returns nil after its log
\* line, the stateless one sends the event first.
StartEvents(s) == IF s THEN << >> ELSE << "container-started" >>

StartOk(s) ==
    /\ ~LifeBusy(FALSE)
    /\ ~LifeIsRunning
    /\ s => stateful
    /\ LifeReturns(LifeCall("Start", s), Nil, StartEvents(s), "RUNNING")
    /\ stateful' = FALSE
    /\ UNCHANGED lifeOp

(***************************************************************************)
(* Freeze and Unfreeze.  Their checks, in order: the container runs, the   *)
(* host has the freezer controller (if not: return nil), the container is  *)
(* (not) frozen.  FreezeGuard and UnfreezeGuard give what the checks       *)
(* return, "pass" if the call goes on.                                     *)
(***************************************************************************)
Pass == Err("pass", "")

FreezeGuard ==
    IF ~LifeIsRunning THEN NotRunningError
    ELSE IF ~cgroupFreezer THEN Nil
    ELSE IF LifeIsFrozen THEN FrozenError
    ELSE Pass

UnfreezeGuard_nocheck ==
    IF ~LifeIsRunning THEN NotRunningError
    ELSE IF ~cgroupFreezer THEN Nil
    ELSE Pass

UnfreezeGuard ==
    IF ~LifeIsRunning THEN NotRunningError
    ELSE IF ~cgroupFreezer THEN Nil
    ELSE IF ~LifeIsFrozen THEN RunningError
    ELSE Pass

FreezeRefused ==
    /\ FreezeGuard # Pass
    /\ LifeRefused(LifeCall("Freeze", FALSE), FreezeGuard)

\* initLXC or c.c.Freeze() fails.
FreezeFail ==
    /\ FreezeGuard = Pass
    /\ LifeRefused(LifeCall("Freeze", FALSE), LowerError)

FreezeOk ==
    /\ FreezeGuard = Pass
    /\ LifeReturns(LifeCall("Freeze", FALSE), Nil, << "container-paused" >>, "FROZEN")
    /\ UNCHANGED <<stateful, lifeOp>>

UnfreezeRefused ==
    /\ UnfreezeGuard # Pass
    /\ LifeRefused(LifeCall("Unfreeze", FALSE), UnfreezeGuard)

\* initLXC fails.
UnfreezeInitFail ==
    /\ UnfreezeGuard = Pass
    /\ LifeRefused(LifeCall("Unfreeze", FALSE), LowerError)

\* c.c.Unfreeze() fails: the error is logged, the event is sent, the error is
\* returned.
UnfreezeFail ==
    /\ UnfreezeGuard = Pass
    /\ LifeReturns(LifeCall("Unfreeze", FALSE), LowerError, << "container-resumed" >>,
                   cstate)
    /\ UNCHANGED <<stateful, lifeOp>>

UnfreezeOk ==
    /\ UnfreezeGuard = Pass
    /\ LifeReturns(LifeCall("Unfreeze", FALSE), Nil, << "container-resumed" >>, "RUNNING")
    /\ UNCHANGED <<stateful, lifeOp>>

(***************************************************************************)
(* Stop(stateful) and Shutdown: the IsRunning check, then                  *)
(* createOperation("stop", reusable, true).  The operation is completed by *)
(* the failing step or by the OnStop hook, which removes the entry.        *)
(***************************************************************************)
Outcome(state, events) == [state |-> state, events |-> events]

\* Stop's fork-bomb mitigation before c.c.Stop(): with the pids controller
\* pids.max is set; otherwise, with the freezer controller, c.Freeze() runs in
\* a goroutine (its result is dropped) and, if it has not answered within
\* five seconds, c.Unfreeze() is called (its result is dropped too).
Mitigation ==
    IF cgroupPids \/ ~cgroupFreezer
      THEN { Outcome(cstate, << >>) }
      ELSE { Outcome(cstate, << >>) }
             \cup (IF LifeIsFrozen
                     THEN { Outcome("RUNNING", << "container-resumed" >>) }
                     ELSE { Outcome("FROZEN", << "container-paused" >>) })

StopRefused(s) ==
    /\ ~LifeIsRunning \/ LifeBusy(TRUE)
    /\ LifeRefused(LifeCall("Stop", s),
                   IF ~LifeIsRunning THEN StoppedError ELSE Err("busy", lifeOp.action))

\* Stateful: MkdirAll or the checkpoint (Migrate) fails.  Stateless: initLXC
\* fails.
StopEarlyFail(s) ==
    /\ LifeIsRunning
    /\ ~LifeBusy(TRUE)
    /\ LifeReturns(LifeCall("Stop", s), LowerError, << >>, cstate)
    /\ lifeOp' = NoLifeOp
    /\ UNCHANGED stateful

\* Stateless: c.c.Stop() fails after the mitigation.
StopFail ==
    /\ LifeIsRunning
    /\ ~LifeBusy(TRUE)
    /\ \E m \in Mitigation :
          LifeReturns(LifeCall("Stop", FALSE), LowerError, m.events, m.state)
    /\ lifeOp' = NoLifeOp
    /\ UNCHANGED stateful

\* Stateful: the container is checkpointed and down, ContainerSetStateful fails.
StopPersistFail ==
    /\ LifeIsRunning
    /\ ~LifeBusy(TRUE)
    /\ LifeReturns(LifeCall("Stop", TRUE), LowerError, << >>, "STOPPED")
    /\ lifeOp' = NoLifeOp
    /\ stateful' = TRUE

StopOk(s) ==
    /\ LifeIsRunning
    /\ ~LifeBusy(TRUE)
    /\ \E m \in (IF s THEN { Outcome(cstate, << >>) } ELSE Mitigation) :
          LifeReturns(LifeCall("Stop", s), Nil,
                      Append(m.events, "container-stopped"), "STOPPED")
    /\ lifeOp' = NoLifeOp
    /\ stateful' = (s \/ stateful)

ShutdownRefused ==
    /\ ~LifeIsRunning \/ LifeBusy(TRUE)
    /\ LifeRefused(LifeCall("Shutdown", FALSE),
                   IF ~LifeIsRunning THEN StoppedError ELSE Err("busy", lifeOp.action))

\* initLXC or c.c.Shutdown(timeout) fails.
ShutdownFail ==
    /\ LifeIsRunning
    /\ ~LifeBusy(TRUE)
    /\ LifeReturns(LifeCall("Shutdown", FALSE), LowerError, << >>, cstate)
    /\ lifeOp' = NoLifeOp
    /\ UNCHANGED stateful

ShutdownOk ==
    /\ LifeIsRunning
    /\ ~LifeBusy(TRUE)
    /\ LifeReturns(LifeCall("Shutdown", FALSE), Nil, << "container-shutdown" >>, "STOPPED")
    /\ lifeOp' = NoLifeOp
    /\ UNCHANGED stateful

(***************************************************************************)
(* Restore(sourceContainer, stateful): the checks, the stop of a running   *)
(* container (an ephemeral one having its flag unset first, with a         *)
(* deferred Update to set it back), the restore of the root filesystem,    *)
(* the Update with the snapshot's configuration, the stateful restore or   *)
(* the restart, and the deferred Update at the return.                     *)
(***************************************************************************)
\* What db.ContainerArgs carries of a container: Config, Devices, Profiles and
\* Ephemeral.
ContainerArgs(config, devices, profs, ephemeral) ==
    [config |-> config, devices |-> devices, profiles |-> profs, ephemeral |-> ephemeral]

ArgsValues ==
    { ContainerArgs(c, d, p, e) : c \in { "config-a", "config-b" },
                                  d \in { "devices-a", "devices-b" },
                                  p \in { "profiles-a", "profiles-b" },
                                  e \in BOOLEAN }

NoArgsValue == ContainerArgs("", "", "", FALSE)
NoRestoreEntry == [c |-> NoArgsValue, running |-> FALSE]

RestoreInit ==
    /\ resC \in ArgsValues
    /\ resSnap \in ArgsValues
    /\ resRunning \in BOOLEAN
    /\ resStateful = FALSE
    /\ resPc = "idle"
    /\ resEntry = NoRestoreEntry
    /\ resDefer = NoArgsValue
    /\ resRet = NoRet

RestoreIdle ==
    /\ resC = NoArgsValue
    /\ resSnap = NoArgsValue
    /\ resRunning = FALSE
    /\ resStateful = FALSE
    /\ resPc = "idle"
    /\ resEntry = NoRestoreEntry
    /\ resDefer = NoArgsValue
    /\ resRet = NoRet

\* Restore returns err: the deferred functions run first.
RestoreReturn(err) ==
    /\ resRet' = err
    /\ resPc' = IF resDefer # NoArgsValue THEN "deferred" ELSE "returned"

RestoreCall(s) ==
    /\ resPc = "idle"
    /\ resPc' = "checks"
    /\ resStateful' = s
    /\ resEntry' = [c |-> resC, running |-> resRunning]
    /\ UNCHANGED <<resC, resSnap, resRunning, resDefer, resRet>>
    /\ UNCHANGED nonRestoreVars

\* initStorage, StorageStart, ContainerCanRestore or the criu check fails.
RestoreCheckFail ==
    /\ resPc = "checks"
    /\ RestoreReturn(LowerError)
    /\ UNCHANGED <<resC, resSnap, resRunning, resStateful, resEntry, resDefer>>
    /\ UNCHANGED nonRestoreVars

\* if c.IsRunning() { wasRunning = true; ephemeral := c.IsEphemeral(); ... }
RestoreChecked ==
    /\ resPc = "checks"
    /\ resPc' = IF ~resRunning THEN "rootfs"
                ELSE IF resC.ephemeral THEN "unset" ELSE "stop"
    /\ UNCHANGED <<resC, resSnap, resRunning, resStateful, resEntry, resDefer, resRet>>
    /\ UNCHANGED nonRestoreVars

\* args := db.ContainerArgs{Config: c.LocalConfig(), ..., Ephemeral: false};
\* c.Update(args, false); defer func() { args.Ephemeral = ephemeral;
\* c.Update(args, true) }().
RestoreUnsetEphemeral ==
    /\ resPc = "unset"
    /\ resC' = [resC EXCEPT !.ephemeral = FALSE]
    /\ resDefer' = [resC EXCEPT !.ephemeral = TRUE]
    /\ resPc' = "stop"
    /\ UNCHANGED <<resSnap, resRunning, resStateful, resEntry, resRet>>
    /\ UNCHANGED nonRestoreVars

RestoreUnsetEphemeralFail ==
    /\ resPc = "unset"
    /\ RestoreReturn(LowerError)
    /\ UNCHANGED <<resC, resSnap, resRunning, resStateful, resEntry, resDefer>>
    /\ UNCHANGED nonRestoreVars

\* c.Stop(false), then StorageStart.
RestoreStop ==
    /\ resPc = "stop"
    /\ resRunning' = FALSE
    /\ resPc' = "rootfs"
    /\ UNCHANGED <<resC, resSnap, resStateful, resEntry, resDefer, resRet>>
    /\ UNCHANGED nonRestoreVars

RestoreStopFail ==
    /\ resPc = "stop"
    /\ RestoreReturn(LowerError)
    /\ UNCHANGED <<resC, resSnap, resRunning, resStateful, resEntry, resDefer>>
    /\ UNCHANGED nonRestoreVars

\* c.storage.ContainerRestore(c, sourceContainer).
RestoreRootfs ==
    /\ resPc = "rootfs"
    /\ resPc' = "config"
    /\ UNCHANGED <<resC, resSnap, resRunning, resStateful, resEntry, resDefer, resRet>>
    /\ UNCHANGED nonRestoreVars

RestoreRootfsFail ==
    /\ resPc = "rootfs"
    /\ RestoreReturn(LowerError)
    /\ UNCHANGED <<resC, resSnap, resRunning, resStateful, resEntry, resDefer>>
    /\ UNCHANGED nonRestoreVars

\* c.Update(args, false) with the snapshot's Config, Devices, Ephemeral and
\* Profiles.
RestoreConfig ==
    /\ resPc = "config"
    /\ resC' = resSnap
    /\ resPc' = "finish"
    /\ UNCHANGED <<resSnap, resRunning, resStateful, resEntry, resDefer, resRet>>
    /\ UNCHANGED nonRestoreVars

RestoreConfigFail ==
    /\ resPc = "config"
    /\ RestoreReturn(LowerError)
    /\ UNCHANGED <<resC, resSnap, resRunning, resStateful, resEntry, resDefer>>
    /\ UNCHANGED nonRestoreVars

\* writeBackupFile fails; the stateful restore finds no state or Migrate fails;
\* the restart (c.Start(false)) fails.
RestoreFinishFail ==
    /\ resPc = "finish"
    /\ RestoreReturn(LowerError)
    /\ UNCHANGED <<resC, resSnap, resRunning, resStateful, resEntry, resDefer>>
    /\ UNCHANGED nonRestoreVars

\* Restore restarts the container: if wasRunning { return c.Start(false) }.
Restarts == resEntry.running

\* The stateful restore brings the container up from its checkpoint; the
\* stateless one starts it again if it was running.
RestoreFinish ==
    /\ resPc = "finish"
    /\ resRunning' = (resStateful \/ Restarts)
    /\ RestoreReturn(Nil)
    /\ UNCHANGED <<resC, resSnap, resStateful, resEntry, resDefer>>
    /\ UNCHANGED nonRestoreVars

\* The deferred function: args.Ephemeral = ephemeral; c.Update(args, true),
\* whose error is dropped.
RestoreDeferred ==
    /\ resPc = "deferred"
    /\ \/ resC' = resDefer
       \/ UNCHANGED resC
    /\ resPc' = "returned"
    /\ UNCHANGED <<resSnap, resRunning, resStateful, resEntry, resDefer, resRet>>
    /\ UNCHANGED nonRestoreVars

(***************************************************************************)
(* Delete: the protection check, then for a container its snapshots, its   *)
(* backups, its storage volume and its database record, for a snapshot its *)
(* volume and its record.                                                  *)
(***************************************************************************)
SnapshotNames == { "snap0", "snap1" }
BackupNames == { "backup0", "backup1" }
ProtectionValues == { "", "true", "false", "1" }

ProtectedError == Err("protected", "")

\* What Delete removes: the snapshots, the backups, the volume, the record.
Owned == [snapshots |-> delSnapshots, backups |-> delBackups, volume |-> delVolume,
          record |-> delRecord]

DeleteInit ==
    /\ delProtection \in ProtectionValues
    /\ delIsSnapshot \in BOOLEAN
    /\ delSnapshots \in (IF delIsSnapshot THEN { {} } ELSE SUBSET SnapshotNames)
    /\ delBackups \in (IF delIsSnapshot THEN { {} } ELSE SUBSET BackupNames)
    /\ delVolume = TRUE
    /\ delRecord = TRUE
    /\ delEntry = Owned
    /\ delPc = "idle"
    /\ delRet = NoRet

DeleteIdle ==
    /\ delProtection = ""
    /\ delIsSnapshot = FALSE
    /\ delSnapshots = {}
    /\ delBackups = {}
    /\ delVolume = FALSE
    /\ delRecord = FALSE
    /\ delEntry = Owned
    /\ delPc = "idle"
    /\ delRet = NoRet

\* shared.IsTrue(c.expandedConfig["security.protection.delete"]) && !c.IsSnapshot()
DeleteProtected_never == FALSE

DeleteProtected == IsTrue(delProtection) /\ ~delIsSnapshot

DeleteCall ==
    /\ delPc = "idle"
    /\ delEntry' = Owned
    /\ IF DeleteProtected
         THEN delPc' = "returned" /\ delRet' = ProtectedError
         ELSE delPc' = (IF delIsSnapshot THEN "volume" ELSE "snapshots") /\ UNCHANGED delRet
    /\ UNCHANGED <<delProtection, delIsSnapshot, delSnapshots, delBackups, delVolume,
                   delRecord>>
    /\ UNCHANGED nonDeleteVars

\* Any of Delete's steps fails and Delete returns the error.
DeleteFail ==
    /\ delPc \in { "snapshots", "backups", "volume", "record" }
    /\ delPc' = "returned"
    /\ delRet' = LowerError
    /\ UNCHANGED <<delProtection, delIsSnapshot, delSnapshots, delBackups, delVolume,
                   delRecord, delEntry>>
    /\ UNCHANGED nonDeleteVars

\* containerDeleteSnapshots, which stops at the first snapshot it fails on.
DeleteSnapshot(s) ==
    /\ delPc = "snapshots"
    /\ s \in delSnapshots
    /\ delSnapshots' = delSnapshots \ { s }
    /\ UNCHANGED <<delProtection, delIsSnapshot, delBackups, delVolume, delRecord, delEntry,
                   delPc, delRet>>
    /\ UNCHANGED nonDeleteVars

DeleteSnapshotsDone ==
    /\ delPc = "snapshots"
    /\ delSnapshots = {}
    /\ delPc' = "backups"
    /\ UNCHANGED <<delProtection, delIsSnapshot, delSnapshots, delBackups, delVolume,
                   delRecord, delEntry, delRet>>
    /\ UNCHANGED nonDeleteVars

\* for _, backup := range backups { err = backup.Delete() ... }
DeleteBackup(b) ==
    /\ delPc = "backups"
    /\ b \in delBackups
    /\ delBackups' = delBackups \ { b }
    /\ UNCHANGED <<delProtection, delIsSnapshot, delSnapshots, delVolume, delRecord, delEntry,
                   delPc, delRet>>
    /\ UNCHANGED nonDeleteVars

DeleteBackupsDone ==
    /\ delPc = "backups"
    /\ delBackups = {}
    /\ delPc' = "volume"
    /\ UNCHANGED <<delProtection, delIsSnapshot, delSnapshots, delBackups, delVolume,
                   delRecord, delEntry, delRet>>
    /\ UNCHANGED nonDeleteVars

\* c.storage.ContainerDelete(c) or ContainerSnapshotDelete(c); without a storage
\* interface, or for a container being imported, the volume is left.
DeleteVolume ==
    /\ delPc = "volume"
    /\ delVolume' \in { FALSE, delVolume }
    /\ delPc' = "record"
    /\ UNCHANGED <<delProtection, delIsSnapshot, delSnapshots, delBackups, delRecord,
                   delEntry, delRet>>
    /\ UNCHANGED nonDeleteVars

\* c.state.Cluster.ContainerRemove and what follows it.
DeleteRecord ==
    /\ delPc = "record"
    /\ delRecord' = FALSE
    /\ delPc' = "returned"
    /\ delRet' = Nil
    /\ UNCHANGED <<delProtection, delIsSnapshot, delSnapshots, delBackups, delVolume,
                   delEntry>>
    /\ UNCHANGED nonDeleteVars

(***************************************************************************)
(* The container stops or reboots by itself and the runtime calls          *)
(* OnStop(target).  The hook looks the registered operation up, removes    *)
(* the proxy devices and stops the storage; its goroutine then cleans up,  *)
(* for target "reboot" calls c.Start(false), and on return runs the        *)
(* deferred op.Done(err) if there was an operation.                        *)
(***************************************************************************)
Targets == { "stop", "reboot" }

OnStopCall(target) == LifeCall(IF target = "reboot" THEN "OnStop(reboot)" ELSE "OnStop(stop)",
                               FALSE)

\* The hook returns err with the container down and nothing restarted.
OnStopReturns(target, err) ==
    /\ LifeIsRunning
    /\ lifeCall' = OnStopCall(target)
    /\ lifeEntry' = [state |-> cstate, op |-> lifeOp]
    /\ lifeRet' = err
    /\ lifeEvents' = << >>
    /\ cstate' = "STOPPED"
    /\ restartRet' = NoRet
    /\ UNCHANGED <<cgroupFreezer, cgroupPids, stateful>>
    /\ UNCHANGED nonLifeVars

\* op != nil && op.action != "stop"
OnStopRefused(target) ==
    /\ lifeOp # NoLifeOp /\ lifeOp.action # "stop"
    /\ OnStopReturns(target, Err("busy", lifeOp.action))
    /\ UNCHANGED lifeOp

\* removeProxyDevices fails: the hook returns the error.
OnStopProxiesFail(target) ==
    /\ lifeOp = NoLifeOp \/ lifeOp.action = "stop"
    /\ OnStopReturns(target, LowerError)
    /\ UNCHANGED lifeOp

\* StorageStop fails: if op != nil { op.Done(err) }, and the error is returned.
OnStopStorageFails(target) ==
    /\ lifeOp = NoLifeOp \/ lifeOp.action = "stop"
    /\ OnStopReturns(target, LowerError)
    /\ lifeOp' = NoLifeOp

\* The goroutine's c.Start(false) is refused by createOperation("start", false,
\* false) when an operation is registered: the deferred op.Done runs only when
\* the goroutine returns, after the Start.
RestartBusy == BusyWith(lifeOp, FALSE)

\* The hook returns nil; its goroutine runs to its end.
OnStopGoes(target) ==
    /\ LifeIsRunning
    /\ lifeOp = NoLifeOp \/ lifeOp.action = "stop"
    /\ lifeCall' = OnStopCall(target)
    /\ lifeEntry' = [state |-> cstate, op |-> lifeOp]
    /\ lifeRet' = Nil
    /\ IF target # "reboot"
         THEN /\ restartRet' = NoRet
              /\ cstate' = "STOPPED"
              /\ lifeEvents' = << >>
              /\ UNCHANGED stateful
         ELSE IF RestartBusy
                THEN /\ restartRet' = Err("busy", lifeOp.action)
                     /\ cstate' = "STOPPED"
                     /\ lifeEvents' = << >>
                     /\ UNCHANGED stateful
                ELSE \/ /\ restartRet' = Nil
                        /\ cstate' = "RUNNING"
                        /\ lifeEvents' = StartEvents(FALSE)
                        /\ stateful' = FALSE
                     \/ /\ restartRet' = LowerError
                        /\ cstate' = "STOPPED"
                        /\ lifeEvents' = << >>
                        /\ UNCHANGED stateful
    /\ lifeOp' = NoLifeOp
    /\ UNCHANGED <<cgroupFreezer, cgroupPids>>
    /\ UNCHANGED nonLifeVars

(***************************************************************************)
(* Live attach and detach of unix-char and unix-block devices on a running *)
(* container: insertUnixDevice and removeUnixDevice and the rules they     *)
(* write to the container's devices cgroup.  A device is named by its rule *)
(* "<type> <major>:<minor>".                                               *)
(***************************************************************************)
UnixDevices == { "c 10:200", "b 7:0" }

\* insertUnixDevice: if !c.isCurrentlyPrivileged() && !c.state.OS.RunningInUserNS
\* && c.state.OS.CGroupDevicesController { CGroupSet("devices.allow", ...) }
AddsRule == ~cgPrivileged /\ ~cgUserNS /\ cgController

\* removeUnixDevice: if c.isCurrentlyPrivileged() && !c.state.OS.RunningInUserNS
\* && c.state.OS.CGroupDevicesController { CGroupSet("devices.deny", ...) }
RevokesRule == cgPrivileged /\ ~cgUserNS /\ cgController

CgroupInit ==
    /\ cgPrivileged \in BOOLEAN
    /\ cgUserNS \in BOOLEAN
    /\ cgController \in BOOLEAN
    /\ cgRules \in SUBSET UnixDevices
    /\ cgInitial = cgRules
    /\ cgAttached = {}
    /\ cgWrites = [d \in UnixDevices |-> << >>]
    /\ cgRet = "none"

CgroupIdle ==
    /\ cgPrivileged = FALSE
    /\ cgUserNS = FALSE
    /\ cgController = FALSE
    /\ cgRules = {}
    /\ cgInitial = {}
    /\ cgAttached = {}
    /\ cgWrites = [d \in UnixDevices |-> << >>]
    /\ cgRet = "none"

\* createUnixDevice, insertMount or deviceGetAttributes fails.
InsertUnixDeviceFail(d) ==
    /\ d \notin cgAttached
    /\ cgRet' = "failed"
    /\ cgWrites' = [cgWrites EXCEPT ![d] = << >>]
    /\ UNCHANGED <<cgPrivileged, cgUserNS, cgController, cgRules, cgInitial, cgAttached>>
    /\ UNCHANGED nonCgroupVars

InsertUnixDevice(d) ==
    /\ d \notin cgAttached
    /\ cgAttached' = cgAttached \cup { d }
    /\ IF AddsRule
         THEN /\ cgRules' = cgRules \cup { d }
              /\ cgWrites' = [cgWrites EXCEPT ![d] = << "devices.allow" >>]
         ELSE /\ UNCHANGED cgRules
              /\ cgWrites' = [cgWrites EXCEPT ![d] = << >>]
    /\ cgRet' = "nil"
    /\ UNCHANGED <<cgPrivileged, cgUserNS, cgController, cgInitial>>
    /\ UNCHANGED nonCgroupVars

\* deviceGetAttributes fails, before the cgroup is touched.
RemoveUnixDeviceFail(d) ==
    /\ d \in cgAttached
    /\ cgRet' = "failed"
    /\ UNCHANGED <<cgPrivileged, cgUserNS, cgController, cgRules, cgInitial, cgAttached,
                   cgWrites>>
    /\ UNCHANGED nonCgroupVars

RemoveUnixDevice(d) ==
    /\ d \in cgAttached
    /\ cgAttached' = cgAttached \ { d }
    /\ IF RevokesRule
         THEN /\ cgRules' = cgRules \ { d }
              /\ cgWrites' = [cgWrites EXCEPT ![d] = Append(@, "devices.deny")]
         ELSE UNCHANGED <<cgRules, cgWrites>>
    /\ cgRet' = "nil"
    /\ UNCHANGED <<cgPrivileged, cgUserNS, cgController, cgInitial>>
    /\ UNCHANGED nonCgroupVars

\* The groups of variables that only their own specification moves, but one.
IdleBut(group) ==
    /\ group = "live" \/ LiveIdle
    /\ group = "disk" \/ DiskIdle
    /\ group = "probe" \/ ProbeIdle
    /\ group = "life" \/ LifeIdle
    /\ group = "restore" \/ RestoreIdle
    /\ group = "delete" \/ DeleteIdle
    /\ group = "cgroup" \/ CgroupIdle

RestIdle == IdleBut("")

vars == <<opVars, idVars, rawVars, remapVars, updVars, liveVars, diskVars, probeVars, lifeVars, restoreVars, deleteVars, cgroupVars>>

Init == OpInit /\ IdmapInit /\ RawIdle /\ RemapIdle /\ UpdIdle /\ RestIdle

Spec == Init /\ [][Next]_vars

\* The same with direct calls of Reset.
LockNext ==
    \/ Next
    \/ \E t \in Callers, o \in Ops : ResetCall(t, o)

LockSpec == Init /\ [][LockNext]_vars

(***************************************************************************)
(* The id-map allocator with calls running one after another, and with     *)
(* concurrent calls.                                                       *)
(***************************************************************************)
IdmapSeqNext ==
    \/ \E n \in Names, cfg \in Configs : SeqCreate(n, cfg)
    \/ \E n \in Names, cfg \in Configs : SeqUpdate(n, cfg)
    \/ \E n \in Names : SeqDelete(n)

IdmapSeqSpec == Init /\ [][IdmapSeqNext]_vars

IdmapNext ==
    \/ \E n \in Names, cfg \in Configs : CreateBegin(n, cfg)
    \/ \E n \in Names : FindIdmapDirect(n)
    \/ \E n \in Names : FindIdmapLock(n)
    \/ \E n \in Names : FindIdmapScan(n)
    \/ \E n \in Names : Persist(n)

IdmapSpec == Init /\ [][IdmapNext]_vars

(***************************************************************************)
(* findIdmap called with a raw.idmap value, for a container that is not    *)
(* isolated and for an isolated one.                                       *)
(***************************************************************************)
RawConfigs == { Config(FALSE, FALSE, Unset, Unset), Config(FALSE, TRUE, Unset, Unset) }

RawInit ==
    /\ OpInit
    /\ IdmapInit
    /\ rawIdmap \in RawValues
    /\ rawRet = NoRawRet
    /\ RemapIdle
    /\ UpdIdle
    /\ RestIdle

RawNext == \E cfg \in RawConfigs : FindIdmapRawCall(cfg)

RawSpec == RawInit /\ [][RawNext]_vars

(***************************************************************************)
(* Starts, stops and id-map changes of one container, one after another.   *)
(***************************************************************************)
RemapNext ==
    \/ StartCommonIdmap
    \/ RemapRefused
    \/ StorageStart
    \/ Unshift
    \/ UnshiftFail
    \/ Shift
    \/ ShiftFail
    \/ SetLastState
    \/ SetLastStateFail
    \/ SetCurrent
    \/ SetCurrentFail
    \/ StartRest
    \/ StopStarted
    \/ \E m \in RemapMaps : UpdateNext(m)

RemapSpecInit == OpInit /\ IdmapInit /\ RawIdle /\ RemapInit /\ UpdIdle /\ RestIdle

RemapSpec == RemapSpecInit /\ [][RemapNext]_vars

(***************************************************************************)
(* Update calls on one container, and the Start that stores the current    *)
(* map, one after another.                                                 *)
(***************************************************************************)
UpdNext ==
    \/ \E args \in UpdateArgs : UpdateRejected(args)
    \/ \E args \in UpdateArgs : UpdateFailsLate(args)
    \/ \E args \in UpdateArgs : UpdateOk(args)
    \/ StartSetsCurrent

UpdSpecInit == OpInit /\ IdmapInit /\ RawIdle /\ RemapIdle /\ UpdInit /\ RestIdle

UpdSpec == UpdSpecInit /\ [][UpdNext]_vars

(***************************************************************************)
(* Update, Start and Stop calls on the container of the live updates, one  *)
(* after another.                                                          *)
(***************************************************************************)
LiveNext ==
    \/ LiveUpdateInvalid
    \/ \E args \in LiveArgs : LiveUpdateBegin(args)
    \/ \E k \in LiveNames : LiveRemove(k)
    \/ \E k \in LiveNames : LiveRemoveFail(k)
    \/ \E k \in LiveNames : LiveAdd(k)
    \/ \E k \in LiveNames : LiveAddSkip(k)
    \/ \E k \in LiveNames : LiveAddFail(k)
    \/ \E k \in LiveNames : LiveUpdateDevice(k)
    \/ \E k \in LiveNames : LiveUpdateDeviceFail(k)
    \/ LivePersist
    \/ LivePersistFail
    \/ LiveStart
    \/ LiveStartSkip
    \/ LiveStartFail
    \/ LiveStop

LiveSpecInit ==
    OpInit /\ IdmapInit /\ RawIdle /\ RemapIdle /\ UpdIdle /\ LiveInit /\ IdleBut("live")

LiveSpec == LiveSpecInit /\ [][LiveNext]_vars

(***************************************************************************)
(* One call of addDiskDevices on any map of up to three disk devices.      *)
(***************************************************************************)
DiskNext ==
    \/ AddDiskDevicesSort
    \/ AddDiskDevicesHandle
    \/ AddDiskDevicesFail
    \/ AddDiskDevicesReturn

DiskSpecInit ==
    OpInit /\ IdmapInit /\ RawIdle /\ RemapIdle /\ UpdIdle /\ DiskInit /\ IdleBut("disk")

DiskSpec == DiskSpecInit /\ [][DiskNext]_vars

(***************************************************************************)
(* State queries on one container.  Time passes while the select waits and *)
(* a select that can return does.                                          *)
(***************************************************************************)
ProbeNext ==
    \/ \E state \in LxcStates : LxcStateChange(state)
    \/ GetLxcState
    \/ GetLxcStateInitFail
    \/ ProbeAnswers
    \/ SelectWaits
    \/ SelectReceives
    \/ SelectTimesOut

ProbeSpecInit ==
    OpInit /\ IdmapInit /\ RawIdle /\ RemapIdle /\ UpdIdle /\ ProbeInit /\ IdleBut("probe")

ProbeSpec ==
    /\ ProbeSpecInit
    /\ [][ProbeNext]_vars
    /\ WF_vars(SelectWaits)
    /\ WF_vars(SelectTimesOut)
    /\ WF_vars(SelectReceives)

(***************************************************************************)
(* Scheduling: a goroutine that can take a step eventually takes one, and  *)
(* an armed timer eventually fires.  Nothing obliges a request to arrive.  *)
(***************************************************************************)
CallerStep(t) ==
    \/ CreateOperationLookup(t)
    \/ CreateOperationInsert(t)
    \/ ResetCheck(t)
    \/ ResetDeliver(t)
    \/ StartBodyFail(t)
    \/ StartBodyOk(t)
    \/ StartDeferDone(t)
    \/ StopBodyFail(t)
    \/ StopBodyOk(t)
    \/ Wait(t)

HookStep ==
    \/ OnStopLookup
    \/ OnStopProxyFail
    \/ OnStopStorageFail
    \/ OnStopSpawn
    \/ OnStopGoroutine

FairSpec ==
    /\ Init
    /\ [][Next]_vars
    /\ \A t \in Callers : WF_vars(CallerStep(t))
    /\ WF_vars(HookStep)
    /\ \A o \in Ops : WF_vars(WatchdogFire(o))

(***************************************************************************)
(* Vocabulary of the properties.                                           *)
(***************************************************************************)
Allocated == 1..nOps
\* Operations created and not yet completed.
LiveOps == {o \in Allocated : ~Closed(o)}
\* Callers inside the body of a lifecycle action, holding an operation they created.
InBody == {t \in Callers : pc[t] \in {"startBody", "deferDone", "stopBody", "Wait"}
                           /\ ~joined[t]}
\* Caller t takes the getOperation step of createOperation.
LookupStep(t) == pc[t] = "createOperation" /\ pc'[t] # "createOperation"
\* A step in which Done is called on op o (by a caller, the hook or the watchdog).
DoneStep(o) ==
    \/ \E t \in Callers : /\ cop[t] = o
                          /\ pc[t] \in {"deferDone", "stopBody"}
                          /\ pc'[t] = "returned"
    \/ hook.op = o /\ hook.pc \in {"body", "goroutine"} /\ hook'.pc = "idle"
    \/ watchdog[o].pc = "select" /\ watchdog'[o].pc = "exited"

(***************************************************************************)
(* C1.  At most one operation that has been created and not yet completed  *)
(* exists at a time for the container id.                                  *)
(***************************************************************************)
C1_AtMostOneLiveOperation == Cardinality(LiveOps) <= 1

(***************************************************************************)
(* C2.  The bodies of two lifecycle actions that hold the operation lock   *)
(* (callers that joined a reusable operation aside) never execute at the   *)
(* same time.                                                              *)
(***************************************************************************)
C2_BodiesExclusive == Cardinality(InBody) <= 1

(***************************************************************************)
(* C3.  A createOperation that finds an operation registered, when reuse   *)
(* does not apply, returns in that step the busy error naming the          *)
(* registered operation's action and changes neither the registry, the     *)
(* operations nor their watchdogs.                                         *)
(***************************************************************************)
C3_BusyError ==
    [][\A t \in Callers :
         (/\ LookupStep(t)
          /\ lxcContainerOperations # NoOp
          /\ ~(call[t].reuse /\ ops[lxcContainerOperations].reusable))
         => /\ pc'[t] = "returned"
            /\ ret'[t] = Err("busy", ops[lxcContainerOperations].action)
            /\ UNCHANGED <<lxcContainerOperations, ops, nOps, watchdog>>]_vars

C3_Witness ==
    \E t \in Callers : /\ pc[t] = "returned"
                       /\ ret[t].kind = "busy"
                       /\ lxcContainerOperations # NoOp
                       /\ ops[lxcContainerOperations].action = ret[t].action

(***************************************************************************)
(* C4.  An operation on which nobody called Done and which was not Reset   *)
(* is, once its watchdog has fired, completed with the timeout error and   *)
(* out of the registry.                                                    *)
(***************************************************************************)
C4_WatchdogCompletes ==
    \A o \in Allocated :
        (watchdog[o].pc = "exited" /\ watchdog[o].round = 1 /\ ~doneCalls[o])
        => /\ Closed(o)
           /\ ops[o].err = TimeoutError(o)
           /\ lxcContainerOperations # o

(***************************************************************************)
(* C5.  Every caller blocked in Wait is eventually released.               *)
(***************************************************************************)
C5_WaitersReleased ==
    \A t \in Callers : (pc[t] = "Wait") ~> (pc[t] = "returned")

(***************************************************************************)
(* C6.  Done takes effect at most once per operation: chanDone is never    *)
(* closed twice, and a Done call on an operation that is not the one       *)
(* registered changes neither the operations (stored error, done-signal)   *)
(* nor the registry.                                                       *)
(***************************************************************************)
C6_DoneOnce ==
    /\ [](\A o \in Ops : ops[o].closes <= 1)
    /\ [][\A o \in Allocated :
            (DoneStep(o) /\ lxcContainerOperations # o)
            => UNCHANGED <<ops, lxcContainerOperations>>]_vars

\* A Start whose operation the watchdog completed has run its deferred Done while
\* a later operation was registered.
C6_Witness ==
    /\ \E t \in Callers : /\ pc[t] = "returned"
                          /\ call[t].name = "Start"
                          /\ ret[t].kind \in {"nil", "failed", "already-running"}
    /\ nOps >= 1
    /\ \A o \in Allocated :
          ops[o].action = "start" => (Closed(o) /\ ops[o].err.kind = "timeout")
    /\ lxcContainerOperations # NoOp

(***************************************************************************)
(* C7.  Reset on a non-reusable operation returns an error and leaves the  *)
(* operation, its watchdog and the registry as they were; a Reset received *)
(* for the registered reusable operation restarts the watchdog's timer     *)
(* (a new round of its select) and leaves the registry and the operations  *)
(* as they were, allocating nothing.                                       *)
(***************************************************************************)
C7_Reset ==
    [][\A t \in Callers :
         /\ (/\ pc[t] = "Reset" /\ pc'[t] # "Reset"
             /\ call[t].name = "Reset"
             /\ ~ops[cop[t]].reusable)
            => /\ pc'[t] = "returned"
               /\ ret'[t] = ResetError
               /\ UNCHANGED <<lxcContainerOperations, ops, nOps, watchdog>>
         /\ (/\ pc[t] = "chanReset" /\ pc'[t] # "chanReset"
             /\ lxcContainerOperations = cop[t])
            => /\ watchdog'[cop[t]].pc = "select"
               /\ watchdog'[cop[t]].round = watchdog[cop[t]].round + 1
               /\ UNCHANGED <<lxcContainerOperations, ops, nOps>>]_vars

C7_Witness ==
    /\ \E t \in Callers : /\ pc[t] = "returned"
                          /\ call[t].name = "Reset"
                          /\ ret[t] = ResetError
    /\ lxcContainerOperations # NoOp
    /\ ~ops[lxcContainerOperations].reusable

Ranged(n) ==
    /\ cts[n].exists
    /\ cts[n].cfg.isolated
    /\ ~cts[n].cfg.privileged
    /\ cts[n].base # Unset

RangeSize(n) == idmapSize(cts[n].cfg.isolated, cts[n].cfg.size)

\* The host-id intervals [base, base+size) of a and b do not intersect.
Disjoint(a, b) ==
    \/ cts[a].base + RangeSize(a) <= cts[b].base
    \/ cts[b].base + RangeSize(b) <= cts[a].base

AllDisjoint ==
    \A a, b \in Names : (a # b /\ Ranged(a) /\ Ranged(b)) => Disjoint(a, b)

(***************************************************************************)
(* C9.  After any sequence of creations and updates the host-id intervals  *)
(* of every two isolated, non-privileged containers are disjoint, whether  *)
(* a base was allocated automatically or given by security.idmap.base.     *)
(***************************************************************************)
C9_AllRangesDisjoint == AllDisjoint

(***************************************************************************)
(* C10.  Two isolated containers created concurrently without a configured *)
(* base never hold the same or overlapping host-id blocks.                 *)
(***************************************************************************)
C10_ConcurrentDisjoint ==
    ~baseGiven =>
       \A a, b \in Names :
          (a # b /\ Ranged(a) /\ Ranged(b) /\ ipc[a] = "idle" /\ ipc[b] = "idle")
          => Disjoint(a, b)

(***************************************************************************)
(* Vocabulary of the allocation properties: the blocks a scan for cName    *)
(* has to avoid, and where a block of size ids is free.                    *)
(***************************************************************************)
Others(db, cName) == { MapEntry(db[n]) : n \in { k \in Names : Scanned(db, k, cName) } }

AreaStart == HostIdmap[1].hostid + AllocSkip
AreaEnd == HostIdmap[1].hostid + HostIdmap[1].maprange

\* [offset, offset+size) is in the allocation area and meets no other block.
Fits(db, cName, offset, size) ==
    /\ AreaStart <= offset
    /\ offset + size <= AreaEnd
    /\ \A e \in Others(db, cName) : offset + size <= e.hostid \/ End(e) <= offset

\* The lowest free offset, if any, is the start of the area or the end of a block.
Candidates(db, cName, size) ==
    { o \in {AreaStart} \cup { End(e) : e \in Others(db, cName) } :
        Fits(db, cName, o, size) }

Lowest(S) == CHOOSE o \in S : \A p \in S : o <= p

FirstFit(db, cName, size) ==
    IF Candidates(db, cName, size) = {}
      THEN NotEnough
      ELSE Found(Lowest(Candidates(db, cName, size)),
                 mkIdmap(Lowest(Candidates(db, cName, size)), size))

(***************************************************************************)
(* C11.  For an isolated container without a configured base, findIdmap    *)
(* returns the lowest offset of the allocation area at which a block of    *)
(* the container's size meets no other container's persisted block, a gap  *)
(* of exactly that size included.  Stated on the tables that creations,    *)
(* updates and deletions without any configured base leave.                *)
(***************************************************************************)
C11_LowestGap ==
    ~baseGiven =>
       \A n \in Names, cfg \in Configs :
          (~cts[n].exists /\ TakesLock(cfg) /\ ~cfg.privileged) =>
             findIdmap(Inserted(n, cfg), n, cfg)
                = { FirstFit(Inserted(n, cfg), n, idmapSize(cfg.isolated, cfg.size)) }

(***************************************************************************)
(* Tables holding containers that were given a base by security.idmap.base *)
(* (the configured path of findIdmap stores any base): below the host's    *)
(* map, at the start of the allocation area, one block further.  The calls *)
(* of IdmapSeqNext then run on them one after another.                     *)
(***************************************************************************)
TableBases == { 0, AreaStart, AreaStart + IsolatedDefaultSize }

TableRows ==
    { NoRow } \cup
    { Persisted(NoRow, Config(FALSE, TRUE, b, Unset),
                Found(b, mkIdmap(b, idmapSize(TRUE, Unset)))) : b \in TableBases }

TableInit ==
    /\ OpInit
    /\ cts \in [Names -> TableRows]
    /\ baseGiven = TRUE
    /\ ipc = [n \in Names |-> "idle"]
    /\ req = [n \in Names |-> NoConfig]
    /\ found = [n \in Names |-> PrivilegedResult]
    /\ idmapLock = NoName
    /\ RawIdle
    /\ RemapIdle
    /\ UpdIdle
    /\ RestIdle

TableSpec == TableInit /\ [][IdmapSeqNext]_vars

\* A block that findIdmap allocated by scanning.
Allocated_auto(n) == Ranged(n) /\ cts[n].cfg.base = Unset

(***************************************************************************)
(* C12.  Every block that findIdmap allocates automatically lies inside    *)
(* the host's default map, whatever blocks the other containers hold       *)
(* (below the host base, at base 0, overlapping).                          *)
(***************************************************************************)
C12_InsideHostMap ==
    \A n \in Names :
       Allocated_auto(n) =>
          /\ HostIdmap[1].hostid <= cts[n].base
          /\ cts[n].base + RangeSize(n) <= AreaEnd

\* The volatile keys of container n as stored, and NextIdmap() of it.
VolatileBase(n) == FormatInt(cts[n].base)
VolatileNext(n) == Marshal(cts[n].next)
NextIdmap(n) == Unmarshal(VolatileNext(n))

\* An isolated, non-privileged container created with or updated to a configured base.
BaseConfigured(n) ==
    /\ cts[n].exists
    /\ cts[n].cfg.isolated
    /\ ~cts[n].cfg.privileged
    /\ cts[n].cfg.base # Unset

C14_SameAgain ==
    [][\A n \in Names :
         (cts'[n] # cts[n] /\ cts'[n].exists /\ ~cts'[n].cfg.privileged
             /\ TakesLock(cts'[n].cfg)) =>
            Found(cts'[n].base, cts'[n].next) \in findIdmap(cts', n, cts'[n].cfg)]_vars

\* A container holds an automatically allocated block beside another container's block.
C14_Witness ==
    \E n, k \in Names :
       /\ n # k
       /\ Allocated_auto(n)
       /\ Ranged(k)
       /\ cts[k].base < cts[n].base
       /\ findIdmap(cts, n, cts[n].cfg) = { Found(cts[n].base, cts[n].next) }

(***************************************************************************)
(* Vocabulary of the raw.idmap property: the size of a range as the        *)
(* format defines it, and the three kinds of unacceptable line.            *)
(***************************************************************************)
WellFormed(r) == Len(r) \in {1, 2} /\ \A k \in 1..Len(r) : IsNumber(r[k])

SizeOf(r) == IF Len(r) = 1 THEN 1 ELSE ParseInt(r[2]) - ParseInt(r[1]) + 1

WrongFields(line) == Len(line) # 3

DifferentSizes(line) ==
    /\ Len(line) = 3
    /\ WellFormed(line[2].parts) /\ WellFormed(line[3].parts)
    /\ SizeOf(line[2].parts) # SizeOf(line[3].parts)

WrongType(line) ==
    /\ Len(line) = 3
    /\ line[1].type \notin { "both", "uid", "gid" }

\* The error the line is rejected with when it is the first one to fail.
RejectedWith(line) ==
    IF WrongFields(line) THEN { "line" }
    ELSE IF DifferentSizes(line) THEN { "sizes" }
    ELSE IF WellFormed(line[2].parts) /\ WellFormed(line[3].parts) THEN { "type" }
    ELSE { "range", "number" }

(***************************************************************************)
(* C15.  A raw.idmap value with a (non-blank) line whose host and          *)
(* namespace ranges have different sizes, that has not exactly three       *)
(* fields, or whose type is not both, uid or gid is rejected: findIdmap    *)
(* returns an error and no map, and the error is the one of that line      *)
(* unless an earlier line already failed in AddSafe.                       *)
(***************************************************************************)
C15_RawRejected ==
    rawRet # NoRawRet =>
       \A i \in 1..Len(rawIdmap) :
          LET line == rawIdmap[i] IN
          (line # BlankLine
             /\ (WrongFields(line) \/ DifferentSizes(line) \/ WrongType(line))
             /\ \A k \in 1..(i - 1) :
                   ~(WrongFields(rawIdmap[k]) \/ DifferentSizes(rawIdmap[k])
                       \/ WrongType(rawIdmap[k])) \/ rawIdmap[k] = BlankLine) =>
             /\ rawRet.err # "nil"
             /\ rawRet.set = << >>
             /\ rawRet.base = 0
             /\ rawRet.err \in RejectedWith(line) \cup
                   (IF \E k \in 1..(i - 1) : rawIdmap[k] # BlankLine
                      THEN { "ErrHostIdIsSubId" } ELSE { })

\* A second line with ranges of 10 and 11 ids was rejected for its sizes.
C15_Witness ==
    /\ Len(rawIdmap) = 2
    /\ rawIdmap[1] # BlankLine
    /\ DifferentSizes(rawIdmap[2])
    /\ rawRet.err = "sizes"
    /\ rawRet.set = << >>

(***************************************************************************)
(* Vocabulary of the remap properties.                                     *)
(***************************************************************************)
UnshiftOf(m) == [op |-> "unshift", Idmap |-> m.Idmap]
ShiftOf(m) == [op |-> "shift", Idmap |-> m.Idmap]

\* A Start has succeeded that found the next map different from the disk map.
StartedAfterChange == spc = "started" /\ nextIdmap # diskIdmap

\* The ownership that volatile.last_state.idmap records.
Recorded(kv) ==
    IF DiskIdmap(kv).nil THEN Raw ELSE Shifted(DiskIdmap(kv).Idmap)

(***************************************************************************)
(* C16.  A successful Start of a stopped container whose next id-map       *)
(* differs from the id-map applied on disk has run the unshift of the old  *)
(* map and the shift of the new map exactly once each, in that order, and  *)
(* volatile.idmap.current equals volatile.idmap.next.                      *)
(***************************************************************************)
C16_UnshiftThenShift ==
    StartedAfterChange =>
       /\ fsLog = << UnshiftOf(diskIdmap), ShiftOf(nextIdmap) >>
       /\ volatile["volatile.idmap.current"] = volatile["volatile.idmap.next"]

(***************************************************************************)
(* C16, amended.  A successful Start of a stopped container whose next     *)
(* id-map differs from the id-map applied on disk has run the unshift of   *)
(* the old map exactly once if a map was applied on disk, then the shift   *)
(* of the new map exactly once if the new map is not empty and the host    *)
(* does not use shiftfs, and nothing else; volatile.idmap.current equals   *)
(* volatile.idmap.next.                                                    *)
(***************************************************************************)
C16_WalksOnce ==
    StartedAfterChange =>
       /\ fsLog = (IF diskIdmap.nil THEN << >> ELSE << UnshiftOf(diskIdmap) >>)
                  \o (IF nextIdmap.nil \/ shiftfs THEN << >> ELSE << ShiftOf(nextIdmap) >>)
       /\ volatile["volatile.idmap.current"] = volatile["volatile.idmap.next"]
       /\ volatile["volatile.idmap.current"] = Stored(nextIdmap.Idmap)

\* A started container whose files went from one map to another.
C16_Witness ==
    /\ StartedAfterChange
    /\ ~diskIdmap.nil /\ ~nextIdmap.nil
    /\ fsLog = << UnshiftOf(diskIdmap), ShiftOf(nextIdmap) >>
    /\ rootfs = Shifted(nextIdmap.Idmap)

(***************************************************************************)
(* C17.  When a Start fails, the ownership of the root filesystem is the   *)
(* one recorded in volatile.last_state.idmap: the remap completed or was   *)
(* rolled back.                                                            *)
(***************************************************************************)
C17_RemapAtomic == spc = "failed" => rootfs = Recorded(volatile)

(***************************************************************************)
(* The root disk devices of a device set, and the expanded devices a       *)
(* request asks for.                                                       *)
(***************************************************************************)
RootDisks(devices) ==
    { n \in DeviceNames : devices[n].type = "disk" /\ devices[n].path = "/" }

PooledRootDisks(devices) == { n \in RootDisks(devices) : devices[n].pool # "" }

Requested == ProfilesExpandDevices(updArgs.Devices, updArgs.Profiles)

UpdateCalled == updArgs # NoArgs

\* C18: an Update whose resulting expanded devices hold no root disk device, or
\* more than one (counted with or without the pool), returns an error, writes
\* nothing to the database and leaves the persisted and in-memory devices as
\* they were before the call.
C18_RootDiskRejected ==
    [][ ( /\ UpdateCalled'
          /\ \/ Cardinality(RootDisks(Requested')) # 1
             \/ Cardinality(PooledRootDisks(Requested')) # 1 )
        => /\ updRet' \notin { "nil", "none" }
           /\ UNCHANGED <<dbConfig, dbDevices, dbProfiles>>
           /\ UNCHANGED <<localDevices, expandedDevices>> ]_vars

\* An Update asking for a single root disk without a pool has been refused, after
\* an earlier Update changed the devices.
C18_Witness ==
    /\ UpdateCalled
    /\ updRet = "no-root-disk"
    /\ RootDisks(Requested) # { }
    /\ PooledRootDisks(Requested) = { }
    /\ localDevices = Devices(NoDevice, RootPool)
    /\ dbDevices = localDevices

\* C19: after any sequence of Update calls, successful or failed, the in-memory
\* expandedDevices hold exactly one device with type disk and path "/", with or
\* without a pool.
C19_OneRootDisk == Cardinality(RootDisks(expandedDevices)) = 1

\* An Update asking for a second root disk without a pool has failed, after an
\* Update that replaced the profile's root disk by the container's own.
C19_Witness ==
    /\ UpdateCalled
    /\ updRet = "invalid-expanded-devices"
    /\ Cardinality(RootDisks(Requested)) = 2
    /\ Cardinality(PooledRootDisks(Requested)) = 1
    /\ profiles = << >>
    /\ localDevices = Devices(NoDevice, RootPool)

\* C20: at every return of Create, Update, Start and VolatileSet the in-memory
\* expandedConfig and expandedDevices are the expansion of the in-memory
\* localConfig, localDevices and profiles.
C20_ExpandedIsExpansion ==
    /\ expandedConfig = ProfilesExpandConfig(localConfig, profiles)
    /\ expandedDevices = ProfilesExpandDevices(localDevices, profiles)

(***************************************************************************)
(* The calls on the container of the live updates.                         *)
(***************************************************************************)
UpdateReturned == lcall = "update" /\ lpc = "idle"
UpdateFailed == UpdateReturned /\ lret \notin { "nil", "none" }
UpdateSucceeded == UpdateReturned /\ lret = "nil"

Before(first, second) ==
    \E i, j \in 1..Len(llog) : i < j /\ llog[i] = first /\ llog[j] = second

\* C21: when Update returns an error, the in-memory description, architecture,
\* ephemeral flag, local and expanded config, local and expanded devices,
\* profiles and expiry date are what they were when the call was entered.
C21_UndoRestoresAll == UpdateFailed => lc = lentry

C23_DetachBeforeAttach ==
    lcall = "update" =>
      \A i, j \in 1..Len(llog) :
         (llog[i].kind = "detach" /\ llog[j].kind = "attach") => i < j

\* An Update of a running container has detached the unix device and replaced the
\* nic under its name.
C23_Witness ==
    /\ UpdateSucceeded
    /\ lrunning
    /\ Before(Action("detach", "eth0"), Action("attach", "eth0"))
    /\ Before(Action("attach", "eth0"), Action("attach", "tty0"))
    /\ \E i \in 1..Len(llog) : llog[i] = Action("detach", "tty0")

NoDiff == [removed |-> { }, added |-> { }, updated |-> { }]

\* C25: diffing a device set against itself gives empty removed, added and updated
\* sets, and an Update of a running container that leaves the expanded devices as
\* they are performs no device action.
C25_SameDevicesNoAction ==
    /\ \A X \in LiveDeviceSets : DevicesUpdate(X, X) = NoDiff
    /\ ( /\ lcall = "update"
         /\ lrunning
         /\ lpc = "update" \/ lret = "nil"
         /\ lc.expandedDevices = lentry.expandedDevices )
       => (llog = << >> /\ lrm = { } /\ ladd = { } /\ lupd = { })

\* An Update of a running container with both devices has changed the description
\* only and returned nil.
C25_Witness ==
    /\ UpdateSucceeded
    /\ lrunning
    /\ lc.expandedDevices = lentry.expandedDevices
    /\ lc.expandedDevices["tty0"] # NoLiveDevice
    /\ lc.description # lentry.description
    /\ levents = 1

\* C26: an optional device whose attach failed is passed over without failing the
\* call and has an inotify watch registered, at Start and on a live Update; a
\* required device is never passed over.
C26_OptionalWatched ==
    \A k \in lskipped : k \in lwatches /\ ~Required(lc.expandedDevices[k])

C24_EachOnceInPathOrder ==
    (dpc = "done" /\ dret = "nil") =>
      /\ Len(handled) = Cardinality(DiskKeys(diskDevices))
      /\ \A k \in DiskKeys(diskDevices) :
            \E i \in DOMAIN handled :
               /\ handled[i] = [key |-> k, device |-> diskDevices[k]]
               /\ \A j \in DOMAIN handled : handled[j].key = k => j = i
      /\ \A i, j \in DOMAIN handled :
            i < j => PathRank(handled[i].device.path) <= PathRank(handled[j].device.path)

LifeNext ==
    \/ \E o \in LifeOps : OtherOperation(o)
    \/ OtherDone
    \/ \E s \in BOOLEAN : StartRefused(s)
    \/ \E s \in BOOLEAN : StartFail(s)
    \/ StartPersistFail
    \/ \E s \in BOOLEAN : StartLateFail(s)
    \/ \E s \in BOOLEAN : StartProxyFail(s)
    \/ \E s \in BOOLEAN : StartOk(s)
    \/ FreezeRefused
    \/ FreezeFail
    \/ FreezeOk
    \/ UnfreezeRefused
    \/ UnfreezeInitFail
    \/ UnfreezeFail
    \/ UnfreezeOk
    \/ \E s \in BOOLEAN : StopRefused(s)
    \/ \E s \in BOOLEAN : StopEarlyFail(s)
    \/ StopFail
    \/ StopPersistFail
    \/ \E s \in BOOLEAN : StopOk(s)
    \/ ShutdownRefused
    \/ ShutdownFail
    \/ ShutdownOk
    \/ \E target \in Targets : OnStopRefused(target)
    \/ \E target \in Targets : OnStopProxiesFail(target)
    \/ \E target \in Targets : OnStopStorageFails(target)
    \/ \E target \in Targets : OnStopGoes(target)

LifeSpecInit ==
    OpInit /\ IdmapInit /\ RawIdle /\ RemapIdle /\ UpdIdle /\ LifeInit /\ IdleBut("life")

LifeSpec == LifeSpecInit /\ [][LifeNext]_vars

\* The event each lifecycle call sends.
LifecycleEvent(name) ==
    CASE name = "Start" -> "container-started"
      [] name = "Stop" -> "container-stopped"
      [] name = "Shutdown" -> "container-shutdown"
      [] name = "Freeze" -> "container-paused"
      [] name = "Unfreeze" -> "container-resumed"
      [] OTHER -> ""

\* The last call sent its own event.
SentOwnEvent ==
    \E i \in DOMAIN lifeEvents : lifeEvents[i] = LifecycleEvent(lifeCall.name)

\* C28: each of Start (stateless or stateful), Stop, Freeze and Unfreeze sends
\* its lifecycle event if and only if it returns nil: a call that succeeded has
\* sent container-started, container-stopped, container-paused or
\* container-resumed, and a call that returned an error has not.
C28_EventIffSuccess ==
    lifeCall.name \in { "Start", "Stop", "Freeze", "Unfreeze" }
        => (SentOwnEvent <=> lifeRet = Nil)

\* The last call was made in a state its guard refuses.
StartOnRunning == lifeCall.name = "Start" /\ lifeEntry.state # "STOPPED"
StopOnStopped == lifeCall.name \in { "Stop", "Shutdown" } /\ lifeEntry.state = "STOPPED"
FreezeOffRunning == lifeCall.name = "Freeze" /\ lifeEntry.state # "RUNNING"
UnfreezeOffFrozen == lifeCall.name = "Unfreeze" /\ lifeEntry.state # "FROZEN"

\* The runtime state and the registry are as they were when the call was made.
NothingChanged == cstate = lifeEntry.state /\ lifeOp = lifeEntry.op

\* This step is a lifecycle call (and not another request's operation being
\* registered or completed).
LifeCalled ==
    /\ lifeCall'.name # ""
    /\ lifeEntry' = [state |-> cstate, op |-> lifeOp]
    /\ \/ lifeOp' = lifeOp
       \/ <<cstate, lifeCall, lifeEntry, lifeEvents, lifeRet>>'
             # <<cstate, lifeCall, lifeEntry, lifeEvents, lifeRet>>

\* C30 as stated: Start on a running container, Stop and Shutdown on a stopped
\* one, Freeze on one that is not running or is frozen and Unfreeze on one that
\* is not frozen return an error and leave the runtime state and the operation
\* registry as they were.
C30_GuardsRefuse ==
    [][ (LifeCalled
           /\ (StartOnRunning \/ StopOnStopped \/ FreezeOffRunning \/ UnfreezeOffFrozen)')
          => (lifeRet' # Nil /\ NothingChanged') ]_vars

\* C30, amended: the same, Unfreeze of a running container being refused only
\* on a host with the freezer controller; on a host without it Freeze and
\* Unfreeze of a running container return nil and change nothing.
C30_GuardsRefuseWithFreezer ==
    [][ LifeCalled =>
          /\ (StartOnRunning \/ StopOnStopped \/ FreezeOffRunning
                  \/ (UnfreezeOffFrozen
                        /\ (cgroupFreezer \/ lifeEntry.state = "STOPPED")))'
                => (lifeRet' # Nil /\ NothingChanged')
          /\ (lifeCall.name \in { "Freeze", "Unfreeze" } /\ lifeEntry.state = "RUNNING"
                  /\ ~cgroupFreezer)'
                => (lifeRet' = Nil /\ lifeEvents' = << >> /\ NothingChanged') ]_vars

\* Unfreeze of a running container was refused while another request's
\* operation was registered.
C30_Witness ==
    /\ UnfreezeOffFrozen
    /\ lifeEntry.state = "RUNNING"
    /\ lifeEntry.op # NoLifeOp
    /\ cgroupFreezer
    /\ lifeRet = RunningError
    /\ NothingChanged

\* No request of this run was a Start.
NoStart == \A u \in Callers : call[u].name # "Start"

RestoreNext ==
    \/ \E s \in BOOLEAN : RestoreCall(s)
    \/ RestoreCheckFail
    \/ RestoreChecked
    \/ RestoreUnsetEphemeral
    \/ RestoreUnsetEphemeralFail
    \/ RestoreStop
    \/ RestoreStopFail
    \/ RestoreRootfs
    \/ RestoreRootfsFail
    \/ RestoreConfig
    \/ RestoreConfigFail
    \/ RestoreFinishFail
    \/ RestoreFinish
    \/ RestoreDeferred

RestoreSpecInit ==
    OpInit /\ IdmapInit /\ RawIdle /\ RemapIdle /\ UpdIdle /\ RestoreInit /\ IdleBut("restore")

RestoreSpec == RestoreSpecInit /\ [][RestoreNext]_vars

RestoreSucceeded == resPc = "returned" /\ resRet = Nil

\* C32: after a successful Restore the container's local config, devices and
\* profiles are the snapshot's; a container that was running and ephemeral has
\* its ephemeral flag set again; a container that was running before a
\* stateless restore is running again.
C32_RestoredIsSnapshot ==
    RestoreSucceeded
        => /\ resC.config = resSnap.config
           /\ resC.devices = resSnap.devices
           /\ resC.profiles = resSnap.profiles
           /\ (resEntry.running /\ resEntry.c.ephemeral) => resC.ephemeral
           /\ (resEntry.running /\ ~resStateful) => resRunning

(***************************************************************************)
(* One Delete of a container or of a snapshot.                             *)
(***************************************************************************)
DeleteNext ==
    \/ DeleteCall
    \/ DeleteFail
    \/ \E s \in SnapshotNames : DeleteSnapshot(s)
    \/ DeleteSnapshotsDone
    \/ \E b \in BackupNames : DeleteBackup(b)
    \/ DeleteBackupsDone
    \/ DeleteVolume
    \/ DeleteRecord

DeleteSpecInit ==
    OpInit /\ IdmapInit /\ RawIdle /\ RemapIdle /\ UpdIdle /\ DeleteInit /\ IdleBut("delete")

DeleteSpec == DeleteSpecInit /\ [][DeleteNext]_vars

\* C33: once Delete was called on a container (not a snapshot) whose
\* security.protection.delete is true, it has returned the "Container is
\* protected" error and the container's snapshots, backups, storage volume and
\* database record are as they were.
C33_ProtectedKeepsAll ==
    (delPc # "idle" /\ IsTrue(delProtection) /\ ~delIsSnapshot)
        => /\ delPc = "returned"
           /\ delRet = ProtectedError
           /\ Owned = delEntry

\* Delete refused a protected container that has snapshots and backups.
C33_Witness ==
    /\ delPc = "returned"
    /\ delRet = ProtectedError
    /\ delProtection = "1"
    /\ delSnapshots = SnapshotNames
    /\ delBackups # {}
    /\ delVolume /\ delRecord

\* C35: a createOperation that sends a Reset to a reusable operation does not
\* block forever: the send on chanReset is always received in the end.
C35_ResetNeverBlocks ==
    \A t \in Callers : (pc[t] = "chanReset") ~> (pc[t] # "chanReset")

\* C36: a Start that failed restarting the proxy devices, after the runtime
\* had started the container, returns with the container stopped.
C36_FailedStartStops ==
    (lifeCall.name = "Start" /\ lifeRet = ProxyError) => cstate = "STOPPED"

\* C38: every error return of Stop and Shutdown (after their operation was
\* obtained) and of the OnStop hook (holding a stop operation) leaves that
\* operation completed: its chanDone is closed, so its waiters are released.
C38_ErrorCompletes ==
    [][ /\ \A t \in Callers :
             (pc[t] \in { "stopBody", "Wait" } /\ pc'[t] = "returned" /\ ret'[t] # Nil)
                => ops'[cop[t]].closes > 0
        /\ (hook.pc = "body" /\ hook'.pc = "idle" /\ hook.op # NoOp)
                => ops'[hook.op].closes > 0 ]_vars

\* The hook ran with target reboot (and returned nil) holding a stop operation,
\* or none.
Rebooted == lifeCall.name = "OnStop(reboot)" /\ lifeRet = Nil

\* C37: after OnStop ran with target reboot, with or without a stop operation
\* registered, the restart was attempted with the stop operation released: the
\* restart's Start was not rejected as busy, and the container runs again
\* unless a layer below Start failed.
C37_RebootRestarts ==
    Rebooted
        => /\ restartRet \in { Nil, LowerError }
           /\ restartRet = Nil => cstate = "RUNNING"

\* C39: whenever Update has returned, with nil or with an error, the
\* container's in-memory local config, local devices and profiles are what the
\* database stores for it.
C39_MemoryIsDatabase ==
    (updRet # "none" /\ updArgs # NoArgs)
        => /\ localConfig = dbConfig
           /\ localDevices = dbDevices
           /\ profiles = dbProfiles

(***************************************************************************)
(* Live attaches and detaches of unix devices on one running container.    *)
(***************************************************************************)
CgroupNext ==
    \/ \E d \in UnixDevices : InsertUnixDeviceFail(d)
    \/ \E d \in UnixDevices : InsertUnixDevice(d)
    \/ \E d \in UnixDevices : RemoveUnixDeviceFail(d)
    \/ \E d \in UnixDevices : RemoveUnixDevice(d)

CgroupSpecInit ==
    OpInit /\ IdmapInit /\ RawIdle /\ RemapIdle /\ UpdIdle /\ CgroupInit /\ IdleBut("cgroup")

CgroupSpec == CgroupSpecInit /\ [][CgroupNext]_vars

\* C40: for a device that was attached live and detached again (or never
\* attached), the detach revoked its rule exactly when the attach had added it,
\* and a rule the cgroup did not hold before the attaches is not held after the
\* detach; this for privileged and for unprivileged containers.
C40_DetachUndoesAttach ==
    \A d \in UnixDevices \ cgAttached :
        /\ cgWrites[d] \in { << >>, << "devices.allow", "devices.deny" >> }
        /\ d \notin cgInitial => d \notin cgRules

====
